---- MODULE Spec2Model ----
(***************************************************************************)
(* Verification model of the desk-research repository.                     *)
(*                                                                         *)
(* Part I  : the integrated orchestration flow                             *)
(*           (src/src/desk_research/flow/flow.py, DeskResearchFlow).       *)
(*           The flow methods are dispatched the way the flow decorators   *)
(*           declare it: a method decorated with listen(X) runs when the   *)
(*           method named X has completed or when a router has returned    *)
(*           the label X.  The return value of a method that is not a      *)
(*           router is not a label.                                        *)
(* Part II : the brand-evidence treatment of one ingested document         *)
(*           (src/src/desk_research/tools/treatment_tools.py).             *)
(* Part III: the text helpers _dedupe_keep_order, _chunk_text_spans and    *)
(*           _chunk_text_for_asimov, each called on one input.             *)
(* Part IV : the snippet methods of AsimovClient                           *)
(*           (src/src/desk_research/tools/asimov_client.py).               *)
(* Part V  : the mode registry of DeskResearchSystem                       *)
(*           (src/src/desk_research/system/research_system.py, main.py).   *)
(* Part VI : the timer table of Console, the polling of                    *)
(*           RAG.completion_with_context and the runs of the two           *)
(*           ingestion tools over one pair of directories.                 *)
(***************************************************************************)
EXTENDS Integers, Sequences, FiniteSets, TLC

\* ------------------------------------------------------------------------
\* Part I - state of one DeskResearchFlow instance
\* ------------------------------------------------------------------------
VARIABLES
    phase,              \* "constructed" | "running" : before / after kickoff
    pending,            \* methods the flow engine has triggered and not yet run
    active_evaluation,  \* value of IS_ACTIVE_ANALYSIS_INTEGRATED for this process
    topic,              \* state.topic
    selected_crews,     \* state.selected_crews (as a set of names)
    results,            \* state.results : crew name -> collected text
    final_report,       \* state.final_report
    retry_count,        \* state.retry_count
    feedback,           \* state.feedback
    synthesis_executed, \* self._synthesis_executed
    pool,               \* crew name -> position of its future in the thread pool
    pool_open,          \* TRUE while run_all_crews_parallel is inside its with-block
    last_return,        \* return value of the method that ran last
    last_score,         \* score extracted by the last evaluate_report (-1: none yet)
    executed,           \* names of the flow methods that have run
    synth_calls,        \* number of runs of synthesize_report
    crew_runs,          \* number of runs of _run_synthesis_crew
    synth_inputs,       \* 'feedback' input of the last _run_synthesis_crew
    eval_calls,         \* number of runs of evaluate_report
    owed_feedback,      \* feedback of a rejection within the bound not yet fed to a synthesis
    approved_draft,     \* draft of the last evaluation that scored >= MIN_APPROVAL_SCORE
    forced_draft,       \* state.final_report when finalize_forced ran
    exported            \* reports handed to export_report, in order

flowVars == <<phase, pending, active_evaluation, topic, selected_crews, results,
              final_report, retry_count, feedback, synthesis_executed, pool,
              pool_open, last_return, last_score, executed, synth_calls,
              crew_runs, synth_inputs, eval_calls, owed_feedback,
              approved_draft, forced_draft, exported>>

\* State of the treatment of one ingested document (Part II)
VARIABLES
    t_stage,        \* position in the loop body of run_treatment_folder
    t_env,          \* BRAND_ALIASES_JSON and BRAND_WHITELIST_CSV of the process
    t_enable_rag,   \* enable_rag
    t_original,     \* original_text : payload["text"]
    t_items,        \* asimov_items_sorted : the chunks retrieved for the document
    t_cleaned,      \* cleaned_text
    t_rag_ok,       \* out_item["rag"]["ok"]
    t_parsed,       \* what _parse_llm_json made of the answer
    t_be_raw,       \* result of _brand_evidence_from_llm_or_fallback
    t_semantics,    \* out_item["semantics"] (the brand fields)
    t_written       \* number of treated files written for the document

treatVars == <<t_stage, t_env, t_enable_rag, t_original, t_items, t_cleaned,
               t_rag_ok, t_parsed, t_be_raw, t_semantics, t_written>>

\* State of one call of a text helper (Part III)
VARIABLES
    d_stage,        \* "idle" | "called" | "returned" : a call of _dedupe_keep_order
    d_names,        \* seq, the argument of the call
    d_out,          \* out, the list the call returns
    k_stage,        \* "idle" | "called" | "loop" | "returned" : a call of a chunker
    k_fn,           \* the chunker called
    k_text,         \* text
    k_max_chars,    \* max_chars
    k_pos,          \* pos
    k_spans         \* spans / chunks

helperVars == <<d_stage, d_names, d_out, k_stage, k_fn, k_text, k_max_chars, k_pos,
                k_spans>>

\* State of one AsimovClient and of the backend it talks to (Part IV)
VARIABLES
    a_backend,      \* what the backend holds and how it answers
    a_stage,        \* position in the public method under way
    a_call,         \* the public method called and its arguments
    a_sent,         \* requests sent to the backend, in order
    a_result,       \* what the last list_snippets / find_snippets returned
    a_todo          \* snippets limpar_dataset has still to go through

asimovVars == <<a_backend, a_stage, a_call, a_sent, a_result, a_todo>>

\* State of one DeskResearchSystem in executar_interativo (Part V)
VARIABLES
    s_module,       \* the module the class was imported from
    s_stage,        \* position in executar_interativo
    s_escolha,      \* what the user typed at the mode prompt
    s_modo,         \* modo
    s_params,       \* params
    s_dispatched    \* executors called, in order

sysVars == <<s_module, s_stage, s_escolha, s_modo, s_params, s_dispatched>>

\* State of the process-wide Console and of the executions that use it,
\* of one call of RAG.completion_with_context, and of the runs of an
\* ingestion tool over one input and one output directory (Part VI)
VARIABLES
    c_timers,       \* Console._timers: label -> the execution whose start time it holds
    c_label,        \* execution -> the label it times
    c_pc,           \* execution -> "ready" | "timing" | "ended" | "raised"
    c_consumed,     \* execution -> the execution whose timer its time_end popped (0: none)
    r_stage,        \* position in completion_with_context
    r_poll_attempts,\* poll_attempts
    r_attempt,      \* attempt, the index of the polling loop
    r_done,         \* done
    r_requests,     \* HTTP requests sent, in order
    r_result,       \* the dict the call returned
    i_tool,         \* the ingestion tool that runs
    i_upload,       \* upload_to_asimov and the client is enabled and configured
    i_input,        \* the files of the input directory, sorted
    i_queue,        \* the input files the run under way has still to process
    i_out,          \* the JSON files of the output directory
    i_uploaded,     \* the chunks sent with a successful upload_snippets, in order
    i_runs          \* runs started so far

toolVars == <<c_timers, c_label, c_pc, c_consumed, r_stage, r_poll_attempts, r_attempt,
              r_done, r_requests, r_result, i_tool, i_upload, i_input, i_queue, i_out,
              i_uploaded, i_runs>>

vars == <<flowVars, treatVars, helperVars, asimovVars, sysVars, toolVars>>

\* ------------------------------------------------------------------------
\* Program constants
\* ------------------------------------------------------------------------
MIN_APPROVAL_SCORE == 80
MAX_RETRY_COUNT == 2
DEFAULT_TOPIC == "Pesquisa Generica"

\* The crews run_all_crews_parallel knows, in the order it tests them.
KnownCrews == {"academic", "web", "x", "genie", "youtube", "consumer_hours"}

\* ------------------------------------------------------------------------
\* Bounds of the model
\* ------------------------------------------------------------------------
MaxSelected == 3        \* at most this many names in selected_crews
RetryCap == 5           \* evaluate_report is not explored beyond this retry_count

\* Inputs of kickoff
CrewNames == KnownCrews \cup {"unknown_crew"}
Topics == {"", "cerveja"}
Selections == {S \in SUBSET CrewNames : Cardinality(S) <= MaxSelected}

\* What the external collaborators can hand back
Scores == {0, 79, 80, 100}
Feedbacks == {"", "melhorar fontes"}
NoDraft == "<none>"
DraftTexts == <<"draft1", "draft2", "draft3", "draft4", "draft5", "draft6", "draft7">>
NoScore == 0 - 1

\* ------------------------------------------------------------------------
\* The flow graph declared by the decorators
\* ------------------------------------------------------------------------
StartMethods == {"initialize_research"}

Routers == {"route_after_synthesis", "flow_control"}

\* The flow graph with the label of finalize_forced misspelt.
ListenToMisspelt ==
    [ run_all_crews_parallel |-> {"initialize_research"},
      synthesize_report      |-> {"run_all_crews_parallel", "retry_synthesis"},
      route_after_synthesis  |-> {"synthesize_report"},
      export_directly        |-> {"direct_export"},
      evaluate_report        |-> {"evaluate"},
      flow_control           |-> {"evaluate_report"},
      finalize_approved      |-> {"approved"},
      finalize_forced        |-> {"max_retry"},
      handle_no_reports      |-> {"no_reports"},
      retry_synthesis        |-> {"rejected"} ]

ListenTo ==
    [ run_all_crews_parallel |-> {"initialize_research"},
      synthesize_report      |-> {"run_all_crews_parallel", "retry_synthesis"},
      route_after_synthesis  |-> {"synthesize_report"},
      export_directly        |-> {"direct_export"},
      evaluate_report        |-> {"evaluate"},
      flow_control           |-> {"evaluate_report"},
      finalize_approved      |-> {"approved"},
      finalize_forced        |-> {"max_retries"},
      handle_no_reports      |-> {"no_reports"},
      retry_synthesis        |-> {"rejected"} ]

RECURSIVE SetToSeq(_)
SetToSeq(S) ==
    IF S = {} THEN <<>>
    ELSE LET x == CHOOSE y \in S : TRUE IN <<x>> \o SetToSeq(S \ {x})

\* Labels a completed method emits: its own name, and its return value when
\* it is a router.
Emitted(method, ret) ==
    IF method \in Routers THEN {method, ret} ELSE {method}

\* Methods triggered by the completion of `method` with return value `ret`,
\* routers first.
Triggered(method, ret) ==
    LET hit == {m \in DOMAIN ListenTo : ListenTo[m] \cap Emitted(method, ret) # {}}
    IN  SetToSeq(hit \cap Routers) \o SetToSeq(hit \ Routers)

\* The engine pops the method that ran and queues what it triggers.
Dispatch(method, ret) ==
    /\ pending' = Tail(pending) \o Triggered(method, ret)
    /\ last_return' = ret
    /\ executed' = executed \cup {method}

Ready(method) == phase = "running" /\ pending # <<>> /\ Head(pending) = method

FlowEnded == phase = "running" /\ pending = <<>>


\* ------------------------------------------------------------------------
\* Helpers of the flow methods
\* ------------------------------------------------------------------------
EmptyResults == [c \in {} |-> ""]

\* What the function submitted for crew c can do.  Every CrewExecutor.run
\* wraps its crew in execute_with_error_handling, which returns either the
\* crew's output or an error text; _run_consumer_hours_parallel passes a
\* topic= keyword that ConsumerHoursCrewExecutor.run() does not accept, so that
\* call raises before the crew starts.
CrewOutcomes(c) ==
    IF c = "consumer_hours" THEN {"raised"}
    ELSE {"returned_output", "returned_error_text"}

\* An as_completed loop that stores the text of an exception as an output.
CollectedTextRaiseAsOutput(c, outcome) ==
    CASE outcome = "returned_output"     -> [of |-> c, kind |-> "output"]
      [] outcome = "returned_error_text" -> [of |-> c, kind |-> "Erro na execucao"]
      [] outcome = "raised"              -> [of |-> c, kind |-> "output"]

\* The value the as_completed loop stores for a finished future.
CollectedText(c, outcome) ==
    CASE outcome = "returned_output"     -> [of |-> c, kind |-> "output"]
      [] outcome = "returned_error_text" -> [of |-> c, kind |-> "Erro na execucao"]
      [] outcome = "raised"              -> [of |-> c, kind |-> "Erro:"]

\* _build_reports_text: one section "=== RELATORIO <crew> === ..." per entry
\* of state.results.
BuildReportsText(res) == SetToSeq({[section |-> c, content |-> res[c]] : c \in DOMAIN res})

\* str.strip() of the joined sections is empty only when there is no section:
\* the header of a section is never blank.
StripIsEmpty(sections) == sections = <<>>

\* _extract_review_data: a review without a score attribute counts as 100.
ExtractReviewData(review) ==
    IF review.has_score THEN <<review.score, review.feedback>>
    ELSE <<100, "Approved (Fallback)">>

Reviews ==
    [has_score : {TRUE}, score : Scores, feedback : Feedbacks]
    \cup {[has_score |-> FALSE, score |-> 0, feedback |-> ""]}

\* flow_control without the retry bound.
FlowControlPathUnbounded(count, fb) ==
    IF fb # "" THEN "retry_synthesis" ELSE "approved"

\* flow_control with the retry bound off by one.
FlowControlPathLate(count, fb) ==
    IF count > MAX_RETRY_COUNT + 1 THEN "max_retries"
    ELSE IF fb # "" THEN "retry_synthesis"
    ELSE "approved"

\* flow_control: the label the router returns.
FlowControlPath(count, fb) ==
    IF count > MAX_RETRY_COUNT THEN "max_retries"
    ELSE IF fb # "" THEN "retry_synthesis"
    ELSE "approved"

\* _export_final with the emptiness test inverted.
ExportFinalInverted(method) ==
    /\ exported' = IF final_report # "" THEN exported
                   ELSE Append(exported, [report |-> final_report, topic |-> topic])
    /\ Dispatch(method, final_report)

\* _export_final: an empty report is not exported; an exception of
\* export_report is swallowed, the call has been made either way.
ExportFinal(method) ==
    /\ exported' = IF final_report = "" THEN exported
                   ELSE Append(exported, [report |-> final_report, topic |-> topic])
    /\ Dispatch(method, final_report)

\* ------------------------------------------------------------------------
\* Init and the flow methods
\* ------------------------------------------------------------------------
InitFlow ==
    /\ phase = "constructed"
    /\ pending = <<>>
    /\ active_evaluation \in BOOLEAN
    /\ topic = ""
    /\ selected_crews = {}
    /\ results = EmptyResults
    /\ final_report = ""
    /\ retry_count = 0
    /\ feedback = ""
    /\ synthesis_executed = FALSE
    /\ pool = EmptyResults
    /\ pool_open = FALSE
    /\ last_return = ""
    /\ last_score = NoScore
    /\ executed = {}
    /\ synth_calls = 0
    /\ crew_runs = 0
    /\ synth_inputs = ""
    /\ eval_calls = 0
    /\ owed_feedback = {}
    /\ approved_draft = NoDraft
    /\ forced_draft = NoDraft
    /\ exported = <<>>

\* flow.kickoff(inputs): the inputs fill the state, the start methods are queued.
kickoff(tp, sel) ==
    /\ phase = "constructed"
    /\ phase' = "running"
    /\ topic' = tp
    /\ selected_crews' = sel
    /\ pending' = SetToSeq(StartMethods)
    /\ UNCHANGED <<active_evaluation, results, final_report, retry_count, feedback,
                   synthesis_executed, pool, pool_open, last_return, last_score,
                   executed, synth_calls, crew_runs, synth_inputs, eval_calls,
                   owed_feedback, approved_draft, forced_draft, exported>>
    /\ UNCHANGED <<treatVars, helperVars, asimovVars, sysVars, toolVars>>

initialize_research ==
    /\ Ready("initialize_research")
    /\ topic' = IF topic = "" THEN DEFAULT_TOPIC ELSE topic
    /\ results' = EmptyResults
    /\ synthesis_executed' = FALSE
    /\ Dispatch("initialize_research", "initialized")
    /\ UNCHANGED <<phase, active_evaluation, selected_crews, final_report,
                   retry_count, feedback, pool, pool_open, last_score,
                   synth_calls, crew_runs, synth_inputs, eval_calls,
                   owed_feedback, approved_draft, forced_draft, exported>>
    /\ UNCHANGED <<treatVars, helperVars, asimovVars, sysVars, toolVars>>

\* run_all_crews_parallel, first part: build the task list; return "no_crews"
\* when it is empty, else submit every task to a pool of len(tasks) workers.
run_all_crews_submit ==
    /\ Ready("run_all_crews_parallel")
    /\ ~pool_open
    /\ LET tasks == selected_crews \cap KnownCrews IN
         IF tasks = {}
         THEN /\ Dispatch("run_all_crews_parallel", "no_crews")
              /\ UNCHANGED <<pool, pool_open>>
         ELSE /\ pool' = [c \in tasks |-> "running"]
              /\ pool_open' = TRUE
              /\ UNCHANGED <<pending, last_return, executed>>
    /\ UNCHANGED <<phase, active_evaluation, topic, selected_crews, results,
                   final_report, retry_count, feedback, synthesis_executed,
                   last_score, synth_calls, crew_runs, synth_inputs, eval_calls,
                   owed_feedback, approved_draft, forced_draft, exported>>
    /\ UNCHANGED <<treatVars, helperVars, asimovVars, sysVars, toolVars>>

\* A worker thread finishes the function of crew c.
crew_thread_finish(c) ==
    /\ pool_open
    /\ c \in DOMAIN pool
    /\ pool[c] = "running"
    /\ \E outcome \in CrewOutcomes(c) : pool' = [pool EXCEPT ![c] = outcome]
    /\ UNCHANGED <<phase, pending, active_evaluation, topic, selected_crews,
                   results, final_report, retry_count, feedback,
                   synthesis_executed, pool_open, last_return, last_score,
                   executed, synth_calls, crew_runs, synth_inputs, eval_calls,
                   owed_feedback, approved_draft, forced_draft, exported>>
    /\ UNCHANGED <<treatVars, helperVars, asimovVars, sysVars, toolVars>>

\* The as_completed loop takes a finished future and stores its result, or
\* the text of its exception, under the crew's name.
collect_future(c) ==
    /\ pool_open
    /\ c \in DOMAIN pool
    /\ pool[c] \in {"returned_output", "returned_error_text", "raised"}
    /\ results' = [d \in DOMAIN results \cup {c} |->
                      IF d = c THEN CollectedText(c, pool[c]) ELSE results[d]]
    /\ pool' = [pool EXCEPT ![c] = "collected"]
    /\ UNCHANGED <<phase, pending, active_evaluation, topic, selected_crews,
                   final_report, retry_count, feedback, synthesis_executed,
                   pool_open, last_return, last_score, executed, synth_calls,
                   crew_runs, synth_inputs, eval_calls, owed_feedback,
                   approved_draft, forced_draft, exported>>
    /\ UNCHANGED <<treatVars, helperVars, asimovVars, sysVars, toolVars>>

\* A loop that stops at the first collected future.
AllCollectedEarly(p) == \E c \in DOMAIN p : p[c] = "collected"

\* as_completed is exhausted and the with-block has joined the workers.
AllCollected(p) == \A c \in DOMAIN p : p[c] = "collected"

run_all_crews_return ==
    /\ Ready("run_all_crews_parallel")
    /\ pool_open
    /\ AllCollected(pool)
    /\ pool_open' = FALSE
    /\ Dispatch("run_all_crews_parallel", "all_completed")
    /\ UNCHANGED <<phase, active_evaluation, topic, selected_crews, results,
                   final_report, retry_count, feedback, synthesis_executed, pool,
                   last_score, synth_calls, crew_runs, synth_inputs, eval_calls,
                   owed_feedback, approved_draft, forced_draft, exported>>
    /\ UNCHANGED <<treatVars, helperVars, asimovVars, sysVars, toolVars>>


\* synthesize_report.  The synthesis crew is an external collaborator: it
\* hands back a draft (possibly the empty text) or raises, which aborts the
\* flow.
synthesize_report ==
    /\ Ready("synthesize_report")
    /\ synth_calls' = synth_calls + 1
    /\ IF DOMAIN results = {}
       THEN /\ Dispatch("synthesize_report", "no_reports")
            /\ UNCHANGED <<phase, final_report, synthesis_executed, crew_runs,
                           synth_inputs, owed_feedback>>
       ELSE IF synthesis_executed
       THEN /\ Dispatch("synthesize_report", "already_executed")
            /\ UNCHANGED <<phase, final_report, synthesis_executed, crew_runs,
                           synth_inputs, owed_feedback>>
       ELSE IF StripIsEmpty(BuildReportsText(results))
       THEN /\ Dispatch("synthesize_report", "no_reports")
            /\ UNCHANGED <<phase, final_report, synthesis_executed, crew_runs,
                           synth_inputs, owed_feedback>>
       ELSE /\ synthesis_executed' = TRUE
            /\ crew_runs' = crew_runs + 1
            /\ synth_inputs' = feedback
            /\ owed_feedback' = owed_feedback \ {feedback}
            /\ \/ /\ \E draft \in {"", DraftTexts[crew_runs + 1]} :
                        final_report' = draft
                  /\ Dispatch("synthesize_report",
                              IF active_evaluation THEN "report_generated"
                              ELSE "report_generated_direct")
                  /\ UNCHANGED phase
               \/ /\ phase' = "failed"
                  /\ pending' = <<>>
                  /\ last_return' = "exception"
                  /\ UNCHANGED <<final_report, executed>>
    /\ UNCHANGED <<active_evaluation, topic, selected_crews, results,
                   retry_count, feedback, pool, pool_open, last_score,
                   eval_calls, approved_draft, forced_draft, exported>>
    /\ UNCHANGED <<treatVars, helperVars, asimovVars, sysVars, toolVars>>

route_after_synthesis ==
    /\ Ready("route_after_synthesis")
    /\ Dispatch("route_after_synthesis",
                IF ~active_evaluation THEN "direct_export" ELSE "evaluate")
    /\ UNCHANGED <<phase, active_evaluation, topic, selected_crews, results,
                   final_report, retry_count, feedback, synthesis_executed, pool,
                   pool_open, last_score, synth_calls, crew_runs, synth_inputs,
                   eval_calls, owed_feedback, approved_draft, forced_draft,
                   exported>>
    /\ UNCHANGED <<treatVars, helperVars, asimovVars, sysVars, toolVars>>

export_directly ==
    /\ Ready("export_directly")
    /\ ExportFinal("export_directly")
    /\ UNCHANGED <<phase, active_evaluation, topic, selected_crews, results,
                   final_report, retry_count, feedback, synthesis_executed, pool,
                   pool_open, last_score, synth_calls, crew_runs, synth_inputs,
                   eval_calls, owed_feedback, approved_draft, forced_draft>>
    /\ UNCHANGED <<treatVars, helperVars, asimovVars, sysVars, toolVars>>

\* The threshold test of evaluate_report, strict.
ApprovesStrict(score) == score > MIN_APPROVAL_SCORE

\* The threshold test of evaluate_report.
Approves(score) == score >= MIN_APPROVAL_SCORE

\* evaluate_report.  The evaluator crew is an external collaborator: it hands
\* back a review or raises, which aborts the flow.
evaluate_report ==
    /\ Ready("evaluate_report")
    /\ retry_count < RetryCap
    /\ \/ /\ \E review \in Reviews :
               LET data == ExtractReviewData(review) IN
                 /\ eval_calls' = eval_calls + 1
                 /\ last_score' = data[1]
                 /\ IF Approves(data[1])
                    THEN /\ feedback' = ""
                         /\ approved_draft' = final_report
                         /\ Dispatch("evaluate_report", "approved")
                         /\ UNCHANGED <<retry_count, owed_feedback>>
                    ELSE /\ feedback' = data[2]
                         /\ retry_count' = retry_count + 1
                         /\ owed_feedback' =
                               IF retry_count + 1 > MAX_RETRY_COUNT
                               THEN owed_feedback
                               ELSE owed_feedback \cup {data[2]}
                         /\ Dispatch("evaluate_report", "rejected")
                         /\ UNCHANGED approved_draft
          /\ UNCHANGED phase
       \/ /\ phase' = "failed"
          /\ pending' = <<>>
          /\ last_return' = "exception"
          /\ UNCHANGED <<eval_calls, last_score, feedback, retry_count,
                         owed_feedback, approved_draft, executed>>
    /\ UNCHANGED <<active_evaluation, topic, selected_crews, results,
                   final_report, synthesis_executed, pool, pool_open,
                   synth_calls, crew_runs, synth_inputs, forced_draft, exported>>
    /\ UNCHANGED <<treatVars, helperVars, asimovVars, sysVars, toolVars>>

flow_control ==
    /\ Ready("flow_control")
    /\ Dispatch("flow_control", FlowControlPath(retry_count, feedback))
    /\ UNCHANGED <<phase, active_evaluation, topic, selected_crews, results,
                   final_report, retry_count, feedback, synthesis_executed, pool,
                   pool_open, last_score, synth_calls, crew_runs, synth_inputs,
                   eval_calls, owed_feedback, approved_draft, forced_draft,
                   exported>>
    /\ UNCHANGED <<treatVars, helperVars, asimovVars, sysVars, toolVars>>

finalize_approved ==
    /\ Ready("finalize_approved")
    /\ ExportFinal("finalize_approved")
    /\ UNCHANGED <<phase, active_evaluation, topic, selected_crews, results,
                   final_report, retry_count, feedback, synthesis_executed, pool,
                   pool_open, last_score, synth_calls, crew_runs, synth_inputs,
                   eval_calls, owed_feedback, approved_draft, forced_draft>>
    /\ UNCHANGED <<treatVars, helperVars, asimovVars, sysVars, toolVars>>

finalize_forced ==
    /\ Ready("finalize_forced")
    /\ forced_draft' = final_report
    /\ ExportFinal("finalize_forced")
    /\ UNCHANGED <<phase, active_evaluation, topic, selected_crews, results,
                   final_report, retry_count, feedback, synthesis_executed, pool,
                   pool_open, last_score, synth_calls, crew_runs, synth_inputs,
                   eval_calls, owed_feedback, approved_draft>>
    /\ UNCHANGED <<treatVars, helperVars, asimovVars, sysVars, toolVars>>

handle_no_reports ==
    /\ Ready("handle_no_reports")
    /\ Dispatch("handle_no_reports", "error")
    /\ UNCHANGED <<phase, active_evaluation, topic, selected_crews, results,
                   final_report, retry_count, feedback, synthesis_executed, pool,
                   pool_open, last_score, synth_calls, crew_runs, synth_inputs,
                   eval_calls, owed_feedback, approved_draft, forced_draft,
                   exported>>
    /\ UNCHANGED <<treatVars, helperVars, asimovVars, sysVars, toolVars>>

retry_synthesis ==
    /\ Ready("retry_synthesis")
    /\ synthesis_executed' = FALSE
    /\ Dispatch("retry_synthesis", "retry_synthesis")
    /\ UNCHANGED <<phase, active_evaluation, topic, selected_crews, results,
                   final_report, retry_count, feedback, pool, pool_open,
                   last_score, synth_calls, crew_runs, synth_inputs, eval_calls,
                   owed_feedback, approved_draft, forced_draft, exported>>
    /\ UNCHANGED <<treatVars, helperVars, asimovVars, sysVars, toolVars>>


\* ------------------------------------------------------------------------
\* Part II - treatment of one ingested document (run_treatment_folder)
\* Texts are sequences of one-character strings.
\* ------------------------------------------------------------------------
\* Characters
SpaceChars == {" ", "\n", "\t", "\r"}
PunctChars == {"!", "?", ".", ",", ";", ":"}
UpperToLower == ("A" :> "a") @@ ("B" :> "b") @@ ("C" :> "c") @@ ("D" :> "d") @@ ("X" :> "x")
LowerLetters == {"a", "b", "c", "d", "n", "x", "z"}
AlnumChars == LowerLetters \cup DOMAIN UpperToLower
BrandExtraChars == {" ", ".", "-", "&", "'", "/"}

None == <<"<None>">>

\* str.lower()
LowerChar(c) == IF c \in DOMAIN UpperToLower THEN UpperToLower[c] ELSE c
Lower(str) == [i \in 1..Len(str) |-> LowerChar(str[i])]

\* str[a:b] with 0 <= a, b (Python slice, 0-based, end exclusive)
Slice(str, a, b) ==
    LET hi == IF b > Len(str) THEN Len(str) ELSE b
    IN  IF a >= hi THEN <<>> ELSE SubSeq(str, a + 1, hi)

RECURSIVE LStrip(_)
LStrip(str) ==
    IF str # <<>> /\ Head(str) \in SpaceChars THEN LStrip(Tail(str)) ELSE str

RECURSIVE RStrip(_)
RStrip(str) ==
    IF str # <<>> /\ str[Len(str)] \in SpaceChars
    THEN RStrip(SubSeq(str, 1, Len(str) - 1)) ELSE str

\* str.strip()
Strip(str) == RStrip(LStrip(str))

\* _WS_RE.sub(" ", str): every run of whitespace becomes one blank
RECURSIVE CollapseWs(_)
CollapseWs(str) ==
    IF str = <<>> THEN <<>>
    ELSE IF Head(str) \in SpaceChars
         THEN <<" ">> \o CollapseWs(LStrip(str))
         ELSE <<Head(str)>> \o CollapseWs(Tail(str))

RECURSIVE RunLen(_, _)
RunLen(str, c) ==
    IF str # <<>> /\ Head(str) = c THEN 1 + RunLen(Tail(str), c) ELSE 0

\* _MULTI_PUNCT_RE.sub(r"\1\1", str): three or more of the same punctuation
\* mark become two
RECURSIVE CollapsePunct(_)
CollapsePunct(str) ==
    IF str = <<>> THEN <<>>
    ELSE LET c == Head(str)
             n == RunLen(str, c)
         IN  IF c \in PunctChars /\ n >= 3
             THEN <<c, c>> \o CollapsePunct(Slice(str, n, Len(str)))
             ELSE <<c>> \o CollapsePunct(Tail(str))

\* _clean_text
CleanText(text) == Strip(CollapsePunct(CollapseWs(Strip(text))))

\* str.find(needle): 0-based index of the first occurrence, -1 when absent
RECURSIVE FindFrom(_, _, _)
FindFrom(text, needle, i) ==
    IF i + Len(needle) > Len(text) THEN 0 - 1
    ELSE IF Slice(text, i, i + Len(needle)) = needle THEN i
    ELSE FindFrom(text, needle, i + 1)

Find(text, needle) == FindFrom(text, needle, 0)

\* needle in text
Contains(text, needle) == Find(text, needle) >= 0

\* _normalize_brand_token
NormalizeBrandToken(str) == CollapseWs(Strip(str))

CountIn(str, chars) == Cardinality({i \in 1..Len(str) : str[i] \in chars})

\* _looks_like_brand_token accepting a one-character name.
LooksLikeBrandTokenLoose(str) ==
    LET n == NormalizeBrandToken(str) IN
      /\ n # <<>>
      /\ ~(Len(n) > 40)
      /\ ~(Contains(n, <<"\n">>) \/ Contains(n, <<"\t">>))
      /\ ~(CountIn(n, {" "}) > 2)
      /\ ~(Len(n) - CountIn(n, AlnumChars \cup BrandExtraChars) > 2)

\* _looks_like_brand_token
LooksLikeBrandToken(str) ==
    LET n == NormalizeBrandToken(str) IN
      /\ n # <<>>
      /\ ~(Len(n) < 2 \/ Len(n) > 40)
      /\ ~(Contains(n, <<"\n">>) \/ Contains(n, <<"\t">>))
      /\ ~(CountIn(n, {" "}) > 2)
      /\ ~(Len(n) - CountIn(n, AlnumChars \cup BrandExtraChars) > 2)

\* _dedupe_keep_order
\* A deduplication whose key keeps the letter case.
RECURSIVE DedupeFromCaseSensitive(_, _)
DedupeFromCaseSensitive(names, seen) ==
    IF names = <<>> THEN <<>>
    ELSE LET x == Head(names)
             k == Strip(x)
         IN  IF k = <<>> \/ k \in seen
             THEN DedupeFromCaseSensitive(Tail(names), seen)
             ELSE <<x>> \o DedupeFromCaseSensitive(Tail(names), seen \cup {k})

\* _dedupe_keep_order: the loop over seq, seen holding the keys met so far
RECURSIVE DedupeFrom(_, _)
DedupeFrom(names, seen) ==
    IF names = <<>> THEN <<>>
    ELSE LET x == Head(names)
             k == Lower(Strip(x))
         IN  IF k = <<>> \/ k \in seen
             THEN DedupeFrom(Tail(names), seen)
             ELSE <<x>> \o DedupeFrom(Tail(names), seen \cup {k})

DedupeKeepOrder(names) == DedupeFrom(names, {})

\* _extract_window
ExtractWindow(text, start, end, pad) ==
    IF text = <<>> THEN <<>>
    ELSE LET lo == IF start - pad < 0 THEN 0 ELSE start - pad
             hi == IF end + pad > Len(text) THEN Len(text) ELSE end + pad
         IN  Strip(Slice(text, lo, hi))

\* _find_first_occurrence: <<start, end>>, or <<-1, -1>> for (None, None)
FindFirstOccurrence(text, needle) ==
    IF text = <<>> \/ needle = <<>> THEN <<0 - 1, 0 - 1>>
    ELSE LET idx == Find(Lower(text), Lower(needle))
         IN  IF idx < 0 THEN <<0 - 1, 0 - 1>> ELSE <<idx, idx + Len(needle)>>

NotLocated == [found |-> FALSE, chunk_key |-> None, chunk_index_from_retrieval |-> 0,
               chunk_offset_start |-> 0, chunk_offset_end |-> 0]

\* _locate_evidence_in_chunks
RECURSIVE LocateFrom(_, _, _)
LocateFrom(ev, items, idx) ==
    IF idx >= Len(items) THEN NotLocated
    ELSE LET item == items[idx + 1]
             pos  == Find(Lower(item.content), Lower(ev))
         IN  IF item.key = <<>> \/ item.content = <<>> THEN LocateFrom(ev, items, idx + 1)
             ELSE IF pos >= 0
             THEN [found |-> TRUE, chunk_key |-> item.key,
                   chunk_index_from_retrieval |-> idx,
                   chunk_offset_start |-> pos, chunk_offset_end |-> pos + Len(ev)]
             ELSE LocateFrom(ev, items, idx + 1)

LocateEvidenceInChunks(evidence_text, items) ==
    LET ev == Strip(evidence_text)
    IN  IF ev = <<>> \/ items = <<>> THEN NotLocated ELSE LocateFrom(ev, items, 0)

\* ------------------------------------------------------------------------
\* Inputs of the treatment: texts, chunks, environment, answers of the model
\* ------------------------------------------------------------------------
MaxEvidence == 2        \* at most this many items in an answer's brand_evidence

\* the original texts of the ingested documents
TextAb == <<" ", "z", " ", "A", "b", " ", " ", "X", "!", "!", "!", "!">>
TextCd == <<"c", "d", " ", "z">>
TextBlank == <<" ", "\n">>
Originals == {TextAb, TextCd, TextBlank}

\* what find_snippets can give back, sorted by key: nothing (disabled, failed,
\* not ok, no item) or the chunks uploaded for the document
ChunksAb == << [key |-> <<"u", "0">>, content |-> <<"z", " ", " ", "A", "b", " ">>],
               [key |-> <<"u", "1">>, content |-> <<"A", "b", " ", "X", "!", "!", "!", "!">>] >>
ChunkSets == {<<>>, ChunksAb}

\* chunk keys the ingestor payload lists under "snippets"
IngestorChunkIndex == {<<"u", "0">>}

\* brand names and quotations an answer can carry
BrandAb == <<"A", "b">>
BrandAbVariant == <<" ", "a", "b">>
BrandCd == <<"C", "d">>
BrandX == <<"X">>
QuoteFound == <<"z", " ", "a", "b">>
QuoteVerbatim == <<"A", "b", " ", "X">>
QuoteAbsent == <<"n", "n">>
QuoteChunkOnly == <<"z", " ", " ", "a", "b">>
QuoteNone == <<>>

ItemPool ==
    { [brand |-> BrandAb,        text |-> QuoteFound,     confidence |-> "high"],
      [brand |-> BrandAb,        text |-> QuoteVerbatim,  confidence |-> " High"],
      [brand |-> BrandAb,        text |-> QuoteAbsent,    confidence |-> "high"],
      [brand |-> BrandAb,        text |-> QuoteFound,     confidence |-> "low"],
      [brand |-> BrandAb,        text |-> QuoteChunkOnly, confidence |-> "high"],
      [brand |-> BrandAb,        text |-> QuoteNone,      confidence |-> "high"],
      [brand |-> BrandAbVariant, text |-> QuoteFound,     confidence |-> "high"],
      [brand |-> BrandCd,        text |-> QuoteAbsent,    confidence |-> "high"],
      [brand |-> BrandCd,        text |-> QuoteFound,     confidence |-> "medium"],
      [brand |-> BrandX,         text |-> QuoteVerbatim,  confidence |-> "high"] }

RECURSIVE SeqsUpTo(_, _)
SeqsUpTo(S, n) ==
    IF n = 0 THEN {<<>>}
    ELSE LET shorter == SeqsUpTo(S, n - 1)
         IN  shorter \cup {Append(q, x) : q \in shorter, x \in S}

NotADict == [is_dict |-> FALSE, brand_evidence |-> <<>>, brand_mentions |-> <<>>,
             brand_mentions_uncertain |-> <<>>]

Answers ==
    [ is_dict : {TRUE},
      brand_evidence : SeqsUpTo(ItemPool, MaxEvidence),
      brand_mentions : {<<>>, <<BrandCd>>},
      brand_mentions_uncertain : {<<>>, <<BrandAb>>, <<BrandCd>>} ]

NoAliases == [b \in {} |-> <<>>]
Envs ==
    { [aliases |-> NoAliases,                 whitelist |-> {}],
      [aliases |-> (<<"a", "b">> :> BrandCd), whitelist |-> {}],
      [aliases |-> NoAliases,                 whitelist |-> {BrandAb}],
      [aliases |-> (<<"a", "b">> :> BrandCd), whitelist |-> {BrandCd}] }

\* str(confidence).strip().lower() on the confidences an answer can carry
StripLowerConfidence(conf) ==
    CASE conf = "high"   -> "high"
      [] conf = " High"  -> "high"
      [] conf = "low"    -> "low"
      [] conf = "medium" -> "medium"
      [] conf = ""       -> ""

NormalizeConfidence(conf) ==
    LET c == IF StripLowerConfidence(conf) = "" THEN "low" ELSE StripLowerConfidence(conf)
    IN  IF c \notin {"high", "low"} THEN "low" ELSE c

\* ------------------------------------------------------------------------
\* _brand_evidence_from_llm_or_fallback
\* ------------------------------------------------------------------------
RECURSIVE EvidenceFromItems(_)
EvidenceFromItems(be) ==
    IF be = <<>> THEN <<>>
    ELSE LET item  == Head(be)
             brand == Strip(NormalizeBrandToken(item.brand))
             txt   == Strip(item.text)
             conf  == NormalizeConfidence(item.confidence)
         IN  IF brand = <<>> \/ txt = <<>>
             THEN EvidenceFromItems(Tail(be))
             ELSE <<[brand |-> brand, confidence |-> conf, text |-> Slice(txt, 0, 600),
                     source |-> None, mentioned_as |-> None]>>
                  \o EvidenceFromItems(Tail(be))

Candidates(names, conf) ==
    [i \in 1..Len(SelectSeq(names, LAMBDA x : x # <<>>)) |->
        [name |-> SelectSeq(names, LAMBDA x : x # <<>>)[i], confidence |-> conf]]

RECURSIVE EvidenceFromCandidates(_, _)
EvidenceFromCandidates(cands, cleaned_text) ==
    IF cands = <<>> THEN <<>>
    ELSE LET b   == NormalizeBrandToken(Head(cands).name)
             occ == FindFirstOccurrence(cleaned_text, b)
         IN  IF ~LooksLikeBrandToken(b) \/ occ[1] < 0
             THEN EvidenceFromCandidates(Tail(cands), cleaned_text)
             ELSE <<[brand |-> b, confidence |-> Head(cands).confidence,
                     text |-> Slice(ExtractWindow(cleaned_text, occ[1], occ[2], 90), 0, 600),
                     source |-> <<"auto_excerpt">>, mentioned_as |-> b]>>
                  \o EvidenceFromCandidates(Tail(cands), cleaned_text)

\* The extraction without its early return: the name lists are searched even
\* when the answer carries usable brand_evidence items.
BrandEvidenceNoEarlyReturn(parsed, cleaned_text) ==
    IF ~parsed.is_dict THEN <<>>
    ELSE EvidenceFromItems(parsed.brand_evidence)
         \o EvidenceFromCandidates(
                Candidates(parsed.brand_mentions, "high")
                    \o Candidates(parsed.brand_mentions_uncertain, "low"),
                cleaned_text)

BrandEvidenceFromLlmOrFallback(parsed, cleaned_text) ==
    IF ~parsed.is_dict THEN <<>>
    ELSE IF EvidenceFromItems(parsed.brand_evidence) # <<>>
    THEN EvidenceFromItems(parsed.brand_evidence)
    ELSE EvidenceFromCandidates(
             Candidates(parsed.brand_mentions, "high")
                 \o Candidates(parsed.brand_mentions_uncertain, "low"),
             cleaned_text)

\* ------------------------------------------------------------------------
\* _postprocess_brand_evidence
\* ------------------------------------------------------------------------
AliasOf(aliases, brand) == IF brand \in DOMAIN aliases THEN aliases[brand] ELSE brand

\* The anchoring without the drop: an item whose quotation and brand name are
\* both missing from the cleaned text keeps its quotation.
AnchoredEvidenceUnchecked(brand_raw, ev_text, cleaned_text) ==
    IF cleaned_text # <<>> /\ ~Contains(Lower(cleaned_text), Lower(ev_text))
    THEN LET occ == FindFirstOccurrence(cleaned_text, brand_raw)
         IN  IF occ[1] < 0 THEN ev_text
             ELSE Slice(ExtractWindow(cleaned_text, occ[1], occ[2], 90), 0, 600)
    ELSE ev_text

\* The evidence text the item is kept with: its own quotation when the cleaned
\* text contains it, else a window around the first occurrence of the brand
\* name; None when neither is found and the item is dropped.  For an empty
\* cleaned text the quotation is kept unchecked.
AnchoredEvidence(brand_raw, ev_text, cleaned_text) ==
    IF cleaned_text # <<>> /\ ~Contains(Lower(cleaned_text), Lower(ev_text))
    THEN LET occ == FindFirstOccurrence(cleaned_text, brand_raw)
         IN  IF occ[1] < 0 THEN None
             ELSE Slice(ExtractWindow(cleaned_text, occ[1], occ[2], 90), 0, 600)
    ELSE ev_text

\* The list an item's brand goes to, with the confidence test inverted.
ClassifyInverted(mapped, conf, whitelist) ==
    IF whitelist # {}
    THEN IF mapped \in whitelist /\ conf = "low" THEN "confirmed" ELSE "uncertain"
    ELSE IF conf = "low" THEN "confirmed" ELSE "uncertain"

\* The list an item's brand goes to.
Classify(mapped, conf, whitelist) ==
    IF whitelist # {}
    THEN IF mapped \in whitelist /\ conf = "high" THEN "confirmed" ELSE "uncertain"
    ELSE IF conf = "high" THEN "confirmed" ELSE "uncertain"

\* One pass of the loop over brand_evidence: the kept items, each with its
\* ev_pack and the list its brand is appended to.
RECURSIVE PostprocessItems(_, _, _, _, _)
PostprocessItems(brand_evidence, cleaned_text, items_sorted, env, chunk_index) ==
    IF brand_evidence = <<>> THEN <<>>
    ELSE LET item      == Head(brand_evidence)
             rest      == PostprocessItems(Tail(brand_evidence), cleaned_text,
                                           items_sorted, env, chunk_index)
             brand_raw == Strip(NormalizeBrandToken(item.brand))
             ev_text0  == Strip(item.text)
             conf      == IF item.confidence \notin {"high", "low"} THEN "low"
                          ELSE item.confidence
             ev_text   == AnchoredEvidence(brand_raw, ev_text0, cleaned_text)
             mapped    == AliasOf(env.aliases, brand_raw)
             text      == Slice(ev_text, 0, 600)
             loc       == IF items_sorted # <<>>
                          THEN LocateEvidenceInChunks(text, items_sorted)
                          ELSE NotLocated
         IN  IF brand_raw = <<>> \/ ev_text0 = <<>> THEN rest
             ELSE IF ~LooksLikeBrandToken(brand_raw) THEN rest
             ELSE IF ev_text = None THEN rest
             ELSE <<[ brand |-> mapped,
                      mentioned_as |-> IF item.mentioned_as # None
                                       THEN item.mentioned_as ELSE brand_raw,
                      confidence |-> conf,
                      text |-> text,
                      source |-> item.source,
                      loc |-> loc,
                      chunk_metadata |-> loc.found /\ loc.chunk_key \in chunk_index,
                      list |-> Classify(mapped, conf, env.whitelist) ]>> \o rest

Brands(packs, list) ==
    LET sel == SelectSeq(packs, LAMBDA e : e.list = list)
    IN  [i \in 1..Len(sel) |-> sel[i].brand]

SeqRange(q) == {q[i] : i \in 1..Len(q)}

\* ev_pack as it is written: the list the brand went to is not part of it
EvPacks(packs) ==
    [i \in 1..Len(packs) |->
        [ brand |-> packs[i].brand, mentioned_as |-> packs[i].mentioned_as,
          confidence |-> packs[i].confidence, text |-> packs[i].text,
          source |-> packs[i].source, loc |-> packs[i].loc,
          chunk_metadata |-> packs[i].chunk_metadata ]]

\* The final filter of the evidence, inverted.
FilterEnrichedInverted(packs, allowed) ==
    SelectSeq(packs, LAMBDA e : Lower(Strip(e.brand)) \notin allowed)

\* The final filter of the evidence: only items of a listed brand stay.
FilterEnriched(packs, allowed) ==
    SelectSeq(packs, LAMBDA e : Lower(Strip(e.brand)) \in allowed)

PostprocessBrandEvidence(brand_evidence, cleaned_text, items_sorted, env, chunk_index) ==
    LET packs     == PostprocessItems(brand_evidence, cleaned_text, items_sorted,
                                      env, chunk_index)
        confirmed == DedupeKeepOrder(Brands(packs, "confirmed"))
        lowered   == {Lower(c) : c \in SeqRange(confirmed)}
        uncertain == DedupeKeepOrder(
                         SelectSeq(Brands(packs, "uncertain"), LAMBDA x : x \notin lowered))
        allowed   == {Lower(b) : b \in SeqRange(confirmed \o uncertain)}
    IN  [ brand_mentions |-> confirmed,
          brand_mentions_uncertain |-> uncertain,
          brand_evidence |-> EvPacks(FilterEnriched(packs, allowed)) ]

\* _fallback_semantics, and the semantics out_item starts with (brand fields)
EmptySemantics ==
    [brand_mentions |-> <<>>, brand_mentions_uncertain |-> <<>>, brand_evidence |-> <<>>]

\* ------------------------------------------------------------------------
\* run_treatment_folder: the steps of the loop body for one valid input file
\* ------------------------------------------------------------------------
RECURSIVE JoinContents(_)
JoinContents(contents) ==
    IF contents = <<>> THEN <<>>
    ELSE IF Len(contents) = 1 THEN Head(contents)
    ELSE Head(contents) \o <<"\n", "\n">> \o JoinContents(Tail(contents))

\* asimov_chunks_text: the stripped non-empty contents joined by a blank line
AsimovChunksText(items) ==
    LET stripped == [i \in 1..Len(items) |-> Strip(items[i].content)]
    IN  JoinContents(SelectSeq(stripped, LAMBDA c : c # <<>>))

\* text_to_use
TextToUse(items, original) ==
    IF AsimovChunksText(items) # <<>> THEN AsimovChunksText(items) ELSE original

TreatIdle ==
    /\ t_stage = "idle"
    /\ t_env = [aliases |-> NoAliases, whitelist |-> {}]
    /\ t_enable_rag = FALSE
    /\ t_original = <<>>
    /\ t_items = <<>>
    /\ t_cleaned = <<>>
    /\ t_rag_ok = FALSE
    /\ t_parsed = NotADict
    /\ t_be_raw = <<>>
    /\ t_semantics = EmptySemantics
    /\ t_written = 0

\* A valid ingestor JSON has been read: payload["text"], the environment and
\* the arguments of the tool are the inputs.
InitTreat ==
    /\ t_stage = "loaded"
    /\ t_env \in Envs
    /\ t_enable_rag \in BOOLEAN
    /\ t_original \in Originals
    /\ t_items = <<>>
    /\ t_cleaned = <<>>
    /\ t_rag_ok = FALSE
    /\ t_parsed = NotADict
    /\ t_be_raw = <<>>
    /\ t_semantics = EmptySemantics
    /\ t_written = 0

\* asimov.find_snippets for the document, sorted by key
treat_fetch_chunks ==
    /\ t_stage = "loaded"
    /\ \E items \in ChunkSets : t_items' = items
    /\ t_stage' = "fetched"
    /\ UNCHANGED <<t_env, t_enable_rag, t_original, t_cleaned, t_rag_ok, t_parsed,
                   t_be_raw, t_semantics, t_written>>
    /\ UNCHANGED <<flowVars, helperVars, asimovVars, sysVars, toolVars>>

\* cleaned_text; an empty one is written at once with the fallback semantics
treat_clean ==
    /\ t_stage = "fetched"
    /\ t_cleaned' = CleanText(TextToUse(t_items, t_original))
    /\ IF t_cleaned' = <<>>
       THEN /\ t_semantics' = EmptySemantics
            /\ t_written' = t_written + 1
            /\ t_stage' = "written"
       ELSE /\ t_stage' = "cleaned"
            /\ UNCHANGED <<t_semantics, t_written>>
    /\ UNCHANGED <<t_env, t_enable_rag, t_original, t_items, t_rag_ok, t_parsed,
                   t_be_raw>>
    /\ UNCHANGED <<flowVars, helperVars, asimovVars, sysVars, toolVars>>

\* The RAG call and the parse of its answer.  Without RAG, with a call that
\* returns ok = False or an unparseable answer the file is written with empty
\* brand fields.  completion_with_context is called outside any try: when it
\* raises (requests.post / requests.get raise on a transport error, and the
\* error branch of a non-2xx answer whose body is not JSON evaluates
\* _safe_json(resp).get on None) run_treatment_folder is left by the
\* exception and nothing is written for the file.
treat_rag ==
    /\ t_stage = "cleaned"
    /\ IF ~t_enable_rag
       THEN /\ t_written' = t_written + 1
            /\ t_stage' = "written"
            /\ UNCHANGED <<t_rag_ok, t_parsed, t_semantics>>
       ELSE \/ /\ t_stage' = "aborted"
               /\ UNCHANGED <<t_rag_ok, t_parsed, t_semantics, t_written>>
            \/ /\ t_rag_ok' = FALSE
               /\ t_semantics' = EmptySemantics
               /\ t_written' = t_written + 1
               /\ t_stage' = "written"
               /\ UNCHANGED t_parsed
            \/ /\ t_rag_ok' = TRUE
               /\ t_parsed' = NotADict
               /\ t_semantics' = EmptySemantics
               /\ t_written' = t_written + 1
               /\ t_stage' = "written"
            \/ /\ t_rag_ok' = TRUE
               /\ \E parsed \in Answers : t_parsed' = parsed
               /\ t_stage' = "parsed"
               /\ UNCHANGED <<t_semantics, t_written>>
    /\ UNCHANGED <<t_env, t_enable_rag, t_original, t_items, t_cleaned, t_be_raw>>
    /\ UNCHANGED <<flowVars, helperVars, asimovVars, sysVars, toolVars>>

\* Brands with mandatory evidence, then the treated file is written.
treat_brands ==
    /\ t_stage = "parsed"
    /\ t_be_raw' = BrandEvidenceFromLlmOrFallback(t_parsed, t_cleaned)
    /\ t_semantics' = PostprocessBrandEvidence(t_be_raw', t_cleaned, t_items, t_env,
                                               IngestorChunkIndex)
    /\ t_written' = t_written + 1
    /\ t_stage' = "written"
    /\ UNCHANGED <<t_env, t_enable_rag, t_original, t_items, t_cleaned, t_rag_ok,
                   t_parsed>>
    /\ UNCHANGED <<flowVars, helperVars, asimovVars, sysVars, toolVars>>

NextTreat ==
    \/ treat_fetch_chunks
    \/ treat_clean
    \/ treat_rag
    \/ treat_brands

\* ------------------------------------------------------------------------
\* Part III - text helpers, each called on one input
\* ------------------------------------------------------------------------
MaxNames == 3           \* at most this many names in the list to deduplicate

HelperIdle ==
    /\ d_stage = "idle"
    /\ d_names = <<>>
    /\ d_out = <<>>
    /\ k_stage = "idle"
    /\ k_fn = ""
    /\ k_text = <<>>
    /\ k_max_chars = 0
    /\ k_pos = 0
    /\ k_spans = <<>>

\* names a list of brands can hold: two spellings and a padded form of one
\* name, another name, and blank entries
NamePool == {BrandAb, <<"a", "b">>, BrandAbVariant, BrandCd, <<>>, <<" ">>}

\* _dedupe_keep_order(seq)
call_dedupe ==
    /\ d_stage = "called"
    /\ d_out' = DedupeKeepOrder(d_names)
    /\ d_stage' = "returned"
    /\ UNCHANGED <<d_names, k_stage, k_fn, k_text, k_max_chars, k_pos, k_spans>>
    /\ UNCHANGED <<flowVars, treatVars, asimovVars, sysVars, toolVars>>

\* the cut at a line break is taken only at or after this offset of the window
NewlineCutMin == 200
\* max_chars at the call of _chunk_text_for_asimov
AsimovChunkChars == 3500

\* Texts handed to the chunkers: short ones, and long ones with a line break
\* at, before and after offset NewlineCutMin.
ChunkTexts ==
    LET Rep(c, n) == [i \in 1..n |-> c]
    IN  { <<>>,
          <<" ", "\n">>,
          <<" ", "a", "\n", "b", "\n", "\n", "c", " ">>,
          Rep("a", NewlineCutMin) \o <<"\n", "b", "c", "d">>,
          Rep("a", NewlineCutMin - 1) \o <<"\n", "b", "c", "d">>,
          Rep("a", NewlineCutMin) \o <<"\n", "\r", "\n">> \o Rep("b", NewlineCutMin + 1)
              \o <<"\n", "c">>,
          Rep("a", AsimovChunkChars + 1) }

\* the values of max_chars
ChunkSizes ==
    {0, 1, 2, NewlineCutMin + 1, NewlineCutMin + 2, NewlineCutMin + 5, AsimovChunkChars}

\* end of the window that starts at pos: pos + max_chars, or the last line
\* break of the window when the window stops short of the text and the break
\* is at offset NewlineCutMin or later
ChunkEnd(t, pos, max_chars) ==
    LET n      == Len(t)
        end    == IF pos + max_chars < n THEN pos + max_chars ELSE n
        window == Slice(t, pos, end)
        breaks == {i \in 1..Len(window) : window[i] = "\n"}
        cut    == IF breaks = {} THEN 0 - 1
                  ELSE (CHOOSE i \in breaks : \A j \in breaks : j <= i) - 1
    IN  IF end < n /\ cut >= NewlineCutMin THEN pos + cut ELSE end

\* A chunker that starts the next window one character before the end of
\* the last one.
NextPosOverlapping(t, end) == IF end > 1 THEN end - 1 ELSE end

\* pos after a chunk: its end, moved past the line breaks that follow
RECURSIVE NextPos(_, _)
NextPos(t, end) ==
    IF end < Len(t) /\ t[end + 1] \in {"\r", "\n"} THEN NextPos(t, end + 1) ELSE end

\* _chunk_text_for_asimov(text, max_chars)
ChunkTextForAsimov(text, max_chars) ==
    LET n     == Len(text)
        count == (n + max_chars - 1) \div max_chars
    IN  [k \in 1..count |->
            [ text  |-> Slice(text, (k - 1) * max_chars, k * max_chars),
              start |-> (k - 1) * max_chars,
              end   |-> IF k * max_chars < n THEN k * max_chars ELSE n ]]

\* _chunk_text_spans up to its loop: an empty text has no chunk, a text of at
\* most max_chars characters is one chunk
chunk_text_spans_enter ==
    /\ k_stage = "called"
    /\ k_fn = "_chunk_text_spans"
    /\ LET t == Strip(k_text) IN
         IF t = <<>>
         THEN k_spans' = <<>> /\ k_stage' = "returned"
         ELSE IF Len(t) <= k_max_chars
         THEN /\ k_spans' = <<[text |-> t, start |-> 0, end |-> Len(t)]>>
              /\ k_stage' = "returned"
         ELSE k_spans' = <<>> /\ k_stage' = "loop"
    /\ UNCHANGED <<d_stage, d_names, d_out, k_fn, k_text, k_max_chars, k_pos>>
    /\ UNCHANGED <<flowVars, treatVars, asimovVars, sysVars, toolVars>>

\* One pass of the while loop of _chunk_text_spans; the function returns when
\* pos has reached the end of the text.
chunk_text_spans_iterate ==
    /\ k_stage = "loop"
    /\ LET t          == Strip(k_text)
           end        == ChunkEnd(t, k_pos, k_max_chars)
           chunk_text == Strip(Slice(t, k_pos, end))
       IN  /\ k_pos < Len(t)
           /\ k_spans' = IF chunk_text # <<>>
                         THEN Append(k_spans, [text |-> chunk_text, start |-> k_pos,
                                               end |-> end])
                         ELSE k_spans
           /\ k_pos' = NextPos(t, end)
           /\ k_stage' = IF k_pos' < Len(t) THEN "loop" ELSE "returned"
    /\ UNCHANGED <<d_stage, d_names, d_out, k_fn, k_text, k_max_chars>>
    /\ UNCHANGED <<flowVars, treatVars, asimovVars, sysVars, toolVars>>

\* _chunk_text_for_asimov(cleaned_text, max_chars); range() takes no step of 0
chunk_text_for_asimov ==
    /\ k_stage = "called"
    /\ k_fn = "_chunk_text_for_asimov"
    /\ k_max_chars > 0
    /\ k_spans' = ChunkTextForAsimov(k_text, k_max_chars)
    /\ k_stage' = "returned"
    /\ UNCHANGED <<d_stage, d_names, d_out, k_fn, k_text, k_max_chars, k_pos>>
    /\ UNCHANGED <<flowVars, treatVars, asimovVars, sysVars, toolVars>>

\* ------------------------------------------------------------------------
\* Part IV - AsimovClient: listing, finding and deleting snippets.
\* The client is enabled and configured.  A dataset argument is a name ("" when
\* none is given), a key_prefix a text (<<>> when none is given).
\* ------------------------------------------------------------------------
MAX_SNIPPETS_LIMIT == 30
MaxListing == 3         \* at most this many snippets in the backend's listing

AsimovIdle ==
    /\ a_backend = [listing |-> <<>>, datasets_ok |-> TRUE, snippets_ok |-> TRUE,
                    server_filters |-> FALSE]
    /\ a_stage = "idle"
    /\ a_call = [method |-> ""]
    /\ a_sent = <<>>
    /\ a_result = [ok |-> FALSE, items |-> <<>>]
    /\ a_todo = <<>>

\* the datasets that exist on the backend
ExistingDatasets == {"d", "e"}

\* the snippets the backend can hold
SnippetPool ==
    { [uuid |-> "s1", dataset |-> "d", key |-> <<"u", "1">>],
      [uuid |-> "s2", dataset |-> "e", key |-> <<"u", "2">>],
      [uuid |-> "s3", dataset |-> "d", key |-> <<"v", "3">>],
      [uuid |-> "s4", dataset |-> "e", key |-> <<"v", "4">>] }

\* The backend: its global listing of snippets in the order it pages them,
\* whether GET datasets and GET snippets answer 200, and whether GET snippets
\* honours the dataset query parameter.
Backends ==
    [ listing : {l \in SeqsUpTo(SnippetPool, MaxListing) :
                    \A i, j \in 1..Len(l) : i # j => l[i] # l[j]},
      datasets_ok : BOOLEAN, snippets_ok : BOOLEAN, server_filters : BOOLEAN ]

\* A value passed where an int is expected: int(v) gives value, or raises
PyInt(n) == [parses |-> TRUE, value |-> n]
IntArgs == {PyInt(n) : n \in {0 - 1, 0, 1, 2, MAX_SNIPPETS_LIMIT + 1}}
               \cup {[parses |-> FALSE, value |-> 0]}

\* The public calls
AsimovCalls ==
    [ method : {"list_snippets"}, limit : IntArgs, offset : {PyInt(0), PyInt(1)},
      dataset : {"", "d", "typo"}, key_prefix : {<<>>, <<"u">>},
      client_side_filter : BOOLEAN ]
    \cup
    [ method : {"find_snippets"}, dataset : {"", "d", "typo"},
      key_prefix : {<<>>, <<"u">>}, max_items : {PyInt(1), PyInt(50)},
      page_size : IntArgs, max_pages : {PyInt(1), PyInt(50)} ]
    \cup
    [ method : {"limpar_dataset"}, dataset_name : {"d", "typo"}, confirm : BOOLEAN ]

\* _clamp_int without the upper limit.
ClampIntLowerOnly(v, lo, hi) ==
    LET i == IF v.parses THEN v.value ELSE lo
    IN  IF i < lo THEN lo ELSE i

\* _clamp_int
ClampInt(v, lo, hi) ==
    LET i == IF v.parses THEN v.value ELSE lo
    IN  IF i < lo THEN lo ELSE IF i > hi THEN hi ELSE i

\* ds_name in list_snippets: the name _resolve_dataset_ident finds among the
\* listed datasets, none when the listing fails or does not hold the name
ResolveDatasetName(backend, dataset) ==
    IF dataset # "" /\ backend.datasets_ok /\ dataset \in ExistingDatasets
    THEN dataset ELSE ""

\* list_snippets: the request it sends and what it returns
ListSnippets(backend, limit, offset, dataset, key_prefix, client_side_filter) ==
    LET limit_i  == ClampInt(limit, 1, MAX_SNIPPETS_LIMIT)
        offset_i == ClampInt(offset, 0, 10000000)
        ds_name  == ResolveDatasetName(backend, dataset)
        request  == [method |-> "GET snippets", limit |-> limit_i,
                     offset |-> offset_i, dataset |-> ds_name]
        listed   == IF backend.server_filters /\ ds_name # ""
                    THEN SelectSeq(backend.listing, LAMBDA it : it.dataset = ds_name)
                    ELSE backend.listing
        items    == Slice(listed, offset_i, offset_i + limit_i)
        of_ds    == IF ds_name # ""
                    THEN SelectSeq(items, LAMBDA it : it.dataset = ds_name)
                    ELSE items
        filtered == IF key_prefix # <<>>
                    THEN SelectSeq(of_ds, LAMBDA it :
                             Slice(it.key, 0, Len(key_prefix)) = key_prefix)
                    ELSE of_ds
    IN  IF ~backend.snippets_ok
        THEN [ok |-> FALSE, items |-> <<>>, request |-> request]
        ELSE IF ~client_side_filter
        THEN [ok |-> TRUE, items |-> items, request |-> request]
        ELSE [ok |-> TRUE, items |-> filtered, request |-> request]

\* The while loop of find_snippets, from the state (found, offset, scanned)
RECURSIVE FindPages(_, _, _, _, _, _)
FindPages(backend, q, found, offset, scanned, sent) ==
    IF ~(scanned < q.max_pages /\ Len(found) < q.max_items)
    THEN [ok |-> TRUE, items |-> found, scanned_pages |-> scanned,
          next_offset |-> offset, sent |-> sent]
    ELSE LET resp  == ListSnippets(backend, PyInt(q.page_size), PyInt(offset),
                                   q.dataset, q.key_prefix, TRUE)
             sent2 == Append(sent, resp.request)
             more  == found \o resp.items
         IN  IF ~resp.ok
             THEN [ok |-> FALSE, items |-> <<>>, scanned_pages |-> scanned,
                   next_offset |-> offset, sent |-> sent2]
             ELSE IF resp.items = <<>>
             THEN [ok |-> TRUE, items |-> found, scanned_pages |-> scanned,
                   next_offset |-> offset, sent |-> sent2]
             ELSE IF Len(more) >= q.max_items
             THEN [ok |-> TRUE, items |-> Slice(more, 0, q.max_items),
                   scanned_pages |-> scanned + 1,
                   next_offset |-> offset + q.page_size, sent |-> sent2]
             ELSE FindPages(backend, q, more, offset + q.page_size, scanned + 1, sent2)

\* find_snippets
FindSnippets(backend, dataset, key_prefix, max_items, page_size, max_pages) ==
    FindPages(backend,
              [ dataset |-> dataset, key_prefix |-> key_prefix,
                max_items |-> ClampInt(max_items, 1, 10000),
                page_size |-> ClampInt(page_size, 1, MAX_SNIPPETS_LIMIT),
                max_pages |-> ClampInt(max_pages, 1, 10000) ],
              <<>>, 0, 0, <<>>)

list_snippets ==
    /\ a_stage = "called"
    /\ a_call.method = "list_snippets"
    /\ LET resp == ListSnippets(a_backend, a_call.limit, a_call.offset, a_call.dataset,
                                a_call.key_prefix, a_call.client_side_filter)
       IN  /\ a_sent' = Append(a_sent, resp.request)
           /\ a_result' = [ok |-> resp.ok, items |-> resp.items]
    /\ a_stage' = "returned"
    /\ UNCHANGED <<a_backend, a_call, a_todo>>
    /\ UNCHANGED <<flowVars, treatVars, helperVars, sysVars, toolVars>>

find_snippets ==
    /\ a_stage = "called"
    /\ a_call.method = "find_snippets"
    /\ LET res == FindSnippets(a_backend, a_call.dataset, a_call.key_prefix,
                               a_call.max_items, a_call.page_size, a_call.max_pages)
       IN  /\ a_sent' = a_sent \o res.sent
           /\ a_result' = [ok |-> res.ok, items |-> res.items]
    /\ a_stage' = "returned"
    /\ UNCHANGED <<a_backend, a_call, a_todo>>
    /\ UNCHANGED <<flowVars, treatVars, helperVars, sysVars, toolVars>>

\* limpar_dataset up to its delete loop: the connection test, the listing of
\* the snippets to delete and the confirmation
limpar_dataset_list ==
    /\ a_stage = "called"
    /\ a_call.method = "limpar_dataset"
    /\ LET probe == FindSnippets(a_backend, a_call.dataset_name, <<>>, PyInt(1),
                                 PyInt(1), PyInt(50))
           all   == FindSnippets(a_backend, a_call.dataset_name, <<>>, PyInt(10000),
                                 PyInt(30), PyInt(50))
       IN  IF ~probe.ok
           THEN /\ a_sent' = a_sent \o probe.sent
                /\ a_result' = [ok |-> FALSE, items |-> <<>>]
                /\ a_stage' = "returned"
                /\ UNCHANGED a_todo
           ELSE /\ a_sent' = a_sent \o probe.sent \o all.sent
                /\ a_result' = [ok |-> all.ok, items |-> all.items]
                /\ IF ~all.ok \/ all.items = <<>>
                   THEN a_stage' = "returned" /\ UNCHANGED a_todo
                   ELSE \E sim \in BOOLEAN :
                          IF a_call.confirm \/ sim
                          THEN a_stage' = "deleting" /\ a_todo' = all.items
                          ELSE a_stage' = "returned" /\ UNCHANGED a_todo
    /\ UNCHANGED <<a_backend, a_call>>
    /\ UNCHANGED <<flowVars, treatVars, helperVars, sysVars, toolVars>>

\* One pass of the delete loop of limpar_dataset: delete_snippet(uuid)
limpar_dataset_delete ==
    /\ a_stage = "deleting"
    /\ a_todo # <<>>
    /\ a_sent' = Append(a_sent, [method |-> "DELETE snippet", uuid |-> Head(a_todo).uuid])
    /\ a_todo' = Tail(a_todo)
    /\ a_stage' = IF Tail(a_todo) = <<>> THEN "returned" ELSE "deleting"
    /\ UNCHANGED <<a_backend, a_call, a_result>>
    /\ UNCHANGED <<flowVars, treatVars, helperVars, sysVars, toolVars>>

\* ------------------------------------------------------------------------
\* Part V - DeskResearchSystem: the research modes and their dispatch.
\* The class exists twice, in main.py and in system/research_system.py;
\* s_module says which one was constructed.
\* ------------------------------------------------------------------------
SysIdle ==
    /\ s_module = "system"
    /\ s_stage = "idle"
    /\ s_escolha = [digit |-> FALSE, n |-> 0, id |-> ""]
    /\ s_modo = ""
    /\ s_params = ""
    /\ s_dispatched = ""

\* modos_disponiveis, in the order of its keys
ModosDisponiveis(module) ==
    IF module = "main"
    THEN <<"genie", "youtube", "academic", "web", "x", "integrated", "consumer_hours">>
    ELSE <<"genie", "youtube", "academic", "web", "x", "consumer_hours", "integrated">>

\* the modes with a parameter collector: the keys of _parameter_collectors, in
\* main.py the branches of executar_interativo that call coletar_parametros_*
ParameterCollectors(module) ==
    {"genie", "youtube", "academic", "web", "x", "consumer_hours", "integrated"}

\* A registry of executors that lacks consumer_hours.
ExecutorsWithoutConsumerHours(module) ==
    {"genie", "youtube", "academic", "web", "x", "integrated"}

\* the modes with an executor: the keys of _executors, in main.py the branches
\* of executar_interativo that call executar_*
Executors(module) ==
    {"genie", "youtube", "academic", "web", "x", "consumer_hours", "integrated"}

\* What the user may type at the mode prompt: a number or an ID
Escolhas ==
    [digit : {TRUE}, n : 0..8, id : {""}]
    \cup [digit : {FALSE}, n : {0},
          id : SeqRange(ModosDisponiveis("system")) \cup {"Genie", "zzz"}]

\* str.lower() on the typed IDs ("Genie" is the only one with an upper-case letter)
LowerId(id) == IF id = "Genie" THEN "genie" ELSE id

\* One pass of the loop of selecionar_modo_interativo: an invalid choice asks again
selecionar_modo_interativo ==
    /\ s_stage = "select"
    /\ \E escolha \in Escolhas :
         LET modos_lista == ModosDisponiveis(s_module)
             id   == IF s_module = "main" THEN LowerId(escolha.id) ELSE escolha.id
             idx  == escolha.n - 1
         IN  /\ s_escolha' = escolha
             /\ IF escolha.digit /\ 0 <= idx /\ idx < Len(modos_lista)
                THEN s_modo' = modos_lista[idx + 1] /\ s_stage' = "collect"
                ELSE IF ~escolha.digit /\ id \in SeqRange(modos_lista)
                THEN s_modo' = id /\ s_stage' = "collect"
                ELSE s_modo' = s_modo /\ s_stage' = "select"
    /\ UNCHANGED <<s_module, s_params, s_dispatched>>
    /\ UNCHANGED <<flowVars, treatVars, helperVars, asimovVars, toolVars>>

\* executar_interativo after the selection: look up the collector and collect
\* the parameters (research_system.py: a collector may return None, which
\* goes back to the selection)
collect_parameters ==
    /\ s_stage = "collect"
    /\ IF s_modo \notin ParameterCollectors(s_module)
       THEN /\ s_params' = "unsupported"
            /\ s_stage' = IF s_module = "main" THEN "failed" ELSE "select"
       ELSE \E params \in IF s_module = "main" THEN {"params"} ELSE {"params", "None"} :
              /\ s_params' = params
              /\ s_stage' = IF params = "None" THEN "select" ELSE "execute"
    /\ UNCHANGED <<s_module, s_escolha, s_modo, s_dispatched>>
    /\ UNCHANGED <<flowVars, treatVars, helperVars, asimovVars, toolVars>>

\* executar_interativo: look up the executor and call it with the parameters
dispatch_executor ==
    /\ s_stage = "execute"
    /\ IF s_modo \notin Executors(s_module)
       THEN /\ s_params' = "unsupported"
            /\ s_stage' = IF s_module = "main" THEN "failed" ELSE "select"
            /\ UNCHANGED s_dispatched
       ELSE /\ s_dispatched' = s_modo
            /\ s_stage' = "done"
            /\ UNCHANGED s_params
    /\ UNCHANGED <<s_module, s_escolha, s_modo>>
    /\ UNCHANGED <<flowVars, treatVars, helperVars, asimovVars, toolVars>>

\* ------------------------------------------------------------------------
\* Part VI a - Console: one timer table for the whole process.  Each
\* execution (a research run, a crew, a synthesis step) calls Console.time
\* with its label, works, and calls Console.time_end with the same label;
\* an execution that returns early or raises in between leaves without
\* calling time_end.
\* ------------------------------------------------------------------------
NumExecutions == 2      \* executions that run concurrently in the process

Executions == 1..NumExecutions

\* the labels the program times
TimerLabels == {"ACADEMIC_RESEARCH", "RUN_WEB_RESEARCH", "SYNTHESIS_REPORT"}

ConsoleIdle ==
    /\ c_timers = <<>>
    /\ c_label = <<>>
    /\ c_pc = <<>>
    /\ c_consumed = <<>>

\* Console.time(label), called by execution e
console_time(e) ==
    /\ c_pc[e] = "ready"
    /\ c_timers' = [l \in DOMAIN c_timers \cup {c_label[e]} |->
                       IF l = c_label[e] THEN e ELSE c_timers[l]]
    /\ c_pc' = [c_pc EXCEPT ![e] = "timing"]
    /\ UNCHANGED <<c_label, c_consumed>>
    /\ UNCHANGED <<r_stage, r_poll_attempts, r_attempt, r_done, r_requests, r_result,
                   i_tool, i_upload, i_input, i_queue, i_out, i_uploaded, i_runs>>
    /\ UNCHANGED <<flowVars, treatVars, helperVars, asimovVars, sysVars>>

\* Console.time_end(label), called by execution e
console_time_end(e) ==
    /\ c_pc[e] = "timing"
    /\ IF c_label[e] \notin DOMAIN c_timers
       THEN /\ c_pc' = [c_pc EXCEPT ![e] = "raised"]
            /\ UNCHANGED <<c_timers, c_consumed>>
       ELSE /\ c_consumed' = [c_consumed EXCEPT ![e] = c_timers[c_label[e]]]
            /\ c_timers' = [l \in DOMAIN c_timers \ {c_label[e]} |-> c_timers[l]]
            /\ c_pc' = [c_pc EXCEPT ![e] = "ended"]
    /\ UNCHANGED c_label
    /\ UNCHANGED <<r_stage, r_poll_attempts, r_attempt, r_done, r_requests, r_result,
                   i_tool, i_upload, i_input, i_queue, i_out, i_uploaded, i_runs>>
    /\ UNCHANGED <<flowVars, treatVars, helperVars, asimovVars, sysVars>>

\* execution e returns early or raises between Console.time and time_end
console_leave(e) ==
    /\ c_pc[e] = "timing"
    /\ c_pc' = [c_pc EXCEPT ![e] = "left"]
    /\ UNCHANGED <<c_timers, c_label, c_consumed>>
    /\ UNCHANGED <<r_stage, r_poll_attempts, r_attempt, r_done, r_requests, r_result,
                   i_tool, i_upload, i_input, i_queue, i_out, i_uploaded, i_runs>>
    /\ UNCHANGED <<flowVars, treatVars, helperVars, asimovVars, sysVars>>

\* ------------------------------------------------------------------------
\* Part VI b - RAG.completion_with_context: initiate, poll the status,
\* fetch the result.  Every request returns an answer or raises.
\* ------------------------------------------------------------------------
MaxPollAttempts == 3    \* poll_attempts is at most this

RagIdle ==
    /\ r_stage = "idle"
    /\ r_poll_attempts = 0
    /\ r_attempt = 0
    /\ r_done = FALSE
    /\ r_requests = <<>>
    /\ r_result = [ok |-> FALSE, done |-> FALSE]

\* A polling loop that goes on whatever the number of attempts.
PollAgainUnbounded(attempt, poll_attempts) == TRUE

\* for attempt in range(poll_attempts): there is a pass with this index
PollAgain(attempt, poll_attempts) == attempt < poll_attempts

\* Step 1: the base URL and the key are read, the completion is initiated
rag_initiate ==
    /\ r_stage = "called"
    /\ \/ /\ r_stage' = "returned"
          /\ r_result' = [ok |-> FALSE, done |-> FALSE]
          /\ UNCHANGED r_requests
       \/ \E answer \in {"error", "500 html", "500 json", "201 no location", "201 location"} :
            /\ r_requests' = Append(r_requests, [request |-> "POST context", answer |-> answer])
            /\ r_stage' = CASE answer \in {"error", "500 html"} -> "raised"
                             [] answer \in {"500 json", "201 no location"} -> "returned"
                             [] OTHER -> IF PollAgain(0, r_poll_attempts)
                                         THEN "polling" ELSE "fetch"
            /\ r_result' = [ok |-> FALSE, done |-> FALSE]
    /\ UNCHANGED <<r_poll_attempts, r_attempt, r_done>>
    /\ UNCHANGED <<c_timers, c_label, c_pc, c_consumed,
                   i_tool, i_upload, i_input, i_queue, i_out, i_uploaded, i_runs>>
    /\ UNCHANGED <<flowVars, treatVars, helperVars, asimovVars, sysVars>>

\* Step 2: one pass of the polling loop; status 0 and status 2 end it
rag_poll ==
    /\ r_stage = "polling"
    /\ \E answer \in {"error", "503", "200 status 1", "200 status 0", "200 status 2"} :
         /\ r_requests' = Append(r_requests, [request |-> "GET status", answer |-> answer])
         /\ IF answer = "error"
            THEN r_stage' = "raised" /\ UNCHANGED <<r_attempt, r_done>>
            ELSE IF answer \in {"200 status 0", "200 status 2"}
            THEN r_stage' = "fetch" /\ r_done' = TRUE /\ UNCHANGED r_attempt
            ELSE /\ r_attempt' = r_attempt + 1
                 /\ r_stage' = IF PollAgain(r_attempt + 1, r_poll_attempts)
                               THEN "polling" ELSE "fetch"
                 /\ UNCHANGED r_done
    /\ UNCHANGED <<r_poll_attempts, r_result>>
    /\ UNCHANGED <<c_timers, c_label, c_pc, c_consumed,
                   i_tool, i_upload, i_input, i_queue, i_out, i_uploaded, i_runs>>
    /\ UNCHANGED <<flowVars, treatVars, helperVars, asimovVars, sysVars>>

\* Step 3: the result is fetched and returned
rag_fetch_result ==
    /\ r_stage = "fetch"
    /\ \E answer \in {"error", "404", "200"} :
         /\ r_requests' = Append(r_requests, [request |-> "GET result", answer |-> answer])
         /\ r_stage' = IF answer = "error" THEN "raised" ELSE "returned"
         /\ r_result' = IF answer = "200" THEN [ok |-> TRUE, done |-> r_done]
                        ELSE IF answer = "404" THEN [ok |-> FALSE, done |-> r_done]
                        ELSE r_result
    /\ UNCHANGED <<r_poll_attempts, r_attempt, r_done>>
    /\ UNCHANGED <<c_timers, c_label, c_pc, c_consumed,
                   i_tool, i_upload, i_input, i_queue, i_out, i_uploaded, i_runs>>
    /\ UNCHANGED <<flowVars, treatVars, helperVars, asimovVars, sysVars>>

\* ------------------------------------------------------------------------
\* Part VI c - the ingestion tools, run again and again over one input and
\* one output directory.  A file of at most two chunks is uploaded with one
\* upload_snippets request.
\* ------------------------------------------------------------------------
MaxRuns == 2            \* runs over the same directories

\* the files an input directory can hold, sorted by path; chunks = 0 stands
\* for a file without text
InputPool ==
    << [path |-> "a.txt",     name |-> "a.txt", chunks |-> 1],
       [path |-> "b.txt",     name |-> "b.txt", chunks |-> 2],
       [path |-> "sub/a.txt", name |-> "a.txt", chunks |-> 2],
       [path |-> "z.txt",     name |-> "z.txt", chunks |-> 0] >>

\* the JSON files an output directory can hold before the first run: none,
\* one without a file_name, one written for b.txt by an earlier run
OutputDirs ==
    { {}, {[file |-> 0, file_name |-> ""]}, {[file |-> 0, file_name |-> "b.txt"]} }

IngestIdle ==
    /\ i_tool = ""
    /\ i_upload = FALSE
    /\ i_input = <<>>
    /\ i_queue = <<>>
    /\ i_out = {}
    /\ i_uploaded = <<>>
    /\ i_runs = 0

ToolsIdle == ConsoleIdle /\ RagIdle /\ IngestIdle

\* A scan of the output directory that never finds the file.
AlreadyProcessedNever(name, out) == FALSE

\* file_already_processed: a JSON of the output directory has this file_name
AlreadyProcessed(name, out) == \E json_file \in out : json_file.file_name = name

\* _run is called: input_files is the sorted list of the input directory
ingest_run ==
    /\ i_tool # ""
    /\ i_queue = <<>>
    /\ i_runs < MaxRuns
    /\ i_queue' = i_input
    /\ i_runs' = i_runs + 1
    /\ UNCHANGED <<i_tool, i_upload, i_input, i_out, i_uploaded>>
    /\ UNCHANGED <<c_timers, c_label, c_pc, c_consumed,
                   r_stage, r_poll_attempts, r_attempt, r_done, r_requests, r_result>>
    /\ UNCHANGED <<flowVars, treatVars, helperVars, asimovVars, sysVars>>

\* One pass of the loop over input_files.  A file without text, a file already
\* processed and a file whose processing raises before the write leave no
\* trace.  ingest_folder writes the JSON and then uploads; ingest_clean_folder
\* uploads and then writes, and its write can fail.
ingest_file ==
    /\ i_queue # <<>>
    /\ LET fp        == Head(i_queue)
           file_uuid == Cardinality(i_out) + Len(i_uploaded) + 1
           written   == i_out \cup {[file |-> file_uuid, file_name |-> fp.name]}
           sent      == i_uploaded \o [k \in 1..fp.chunks |->
                                          [file |-> file_uuid, name |-> fp.name, index |-> k]]
       IN  IF fp.chunks = 0 \/ AlreadyProcessed(fp.name, i_out)
           THEN UNCHANGED <<i_out, i_uploaded>>
           ELSE \/ UNCHANGED <<i_out, i_uploaded>>
                \/ /\ i_out' = written
                   /\ \/ i_upload /\ i_uploaded' = sent
                      \/ UNCHANGED i_uploaded
                \/ /\ i_tool = "ingest_clean_folder"
                   /\ i_upload
                   /\ i_uploaded' = sent
                   /\ UNCHANGED i_out
    /\ i_queue' = Tail(i_queue)
    /\ UNCHANGED <<i_tool, i_upload, i_input, i_runs>>
    /\ UNCHANGED <<c_timers, c_label, c_pc, c_consumed,
                   r_stage, r_poll_attempts, r_attempt, r_done, r_requests, r_result>>
    /\ UNCHANGED <<flowVars, treatVars, helperVars, asimovVars, sysVars>>

\* ------------------------------------------------------------------------
\* Specifications
\* ------------------------------------------------------------------------
Init == InitFlow /\ TreatIdle /\ HelperIdle /\ AsimovIdle /\ SysIdle /\ ToolsIdle

\* Treatment of one file
TreatInit ==
    /\ InitFlow /\ active_evaluation = TRUE
    /\ InitTreat
    /\ HelperIdle /\ AsimovIdle /\ SysIdle /\ ToolsIdle

TreatSpec == TreatInit /\ [][NextTreat]_vars

\* One call of _dedupe_keep_order
DedupeInit ==
    /\ InitFlow /\ active_evaluation = TRUE
    /\ TreatIdle /\ AsimovIdle /\ SysIdle /\ ToolsIdle
    /\ d_stage = "called"
    /\ d_names \in SeqsUpTo(NamePool, MaxNames)
    /\ d_out = <<>>
    /\ k_stage = "idle" /\ k_fn = "" /\ k_text = <<>> /\ k_max_chars = 0
    /\ k_pos = 0 /\ k_spans = <<>>

DedupeSpec == DedupeInit /\ [][call_dedupe]_vars

\* One call of a chunker
ChunkInit ==
    /\ InitFlow /\ active_evaluation = TRUE
    /\ TreatIdle /\ AsimovIdle /\ SysIdle /\ ToolsIdle
    /\ d_stage = "idle" /\ d_names = <<>> /\ d_out = <<>>
    /\ k_stage = "called"
    /\ k_fn \in {"_chunk_text_spans", "_chunk_text_for_asimov"}
    /\ k_text \in ChunkTexts
    /\ k_max_chars \in ChunkSizes
    /\ k_pos = 0
    /\ k_spans = <<>>

NextChunk ==
    \/ chunk_text_spans_enter
    \/ chunk_text_spans_iterate
    \/ chunk_text_for_asimov

ChunkSpec == ChunkInit /\ [][NextChunk]_vars

\* One public call on an AsimovClient
AsimovInit ==
    /\ InitFlow /\ active_evaluation = TRUE
    /\ TreatIdle /\ HelperIdle /\ SysIdle /\ ToolsIdle
    /\ a_backend \in Backends
    /\ a_stage = "called"
    /\ a_call \in AsimovCalls
    /\ a_sent = <<>>
    /\ a_result = [ok |-> FALSE, items |-> <<>>]
    /\ a_todo = <<>>

NextAsimov ==
    \/ list_snippets
    \/ find_snippets
    \/ limpar_dataset_list
    \/ limpar_dataset_delete

AsimovSpec == AsimovInit /\ [][NextAsimov]_vars

\* One call of executar_interativo on a fresh DeskResearchSystem
ModeInit ==
    /\ InitFlow /\ active_evaluation = TRUE
    /\ TreatIdle /\ HelperIdle /\ AsimovIdle /\ ToolsIdle
    /\ s_module \in {"main", "system"}
    /\ s_stage = "select"
    /\ s_escolha = [digit |-> FALSE, n |-> 0, id |-> ""]
    /\ s_modo = ""
    /\ s_params = ""
    /\ s_dispatched = ""

NextMode ==
    \/ selecionar_modo_interativo
    \/ collect_parameters
    \/ dispatch_executor

ModeSpec == ModeInit /\ [][NextMode]_vars

\* Concurrent executions that time themselves with Console
ConsoleInit ==
    /\ InitFlow /\ active_evaluation = TRUE
    /\ TreatIdle /\ HelperIdle /\ AsimovIdle /\ SysIdle /\ RagIdle /\ IngestIdle
    /\ c_timers = <<>>
    /\ c_label \in [Executions -> TimerLabels]
    /\ c_pc = [e \in Executions |-> "ready"]
    /\ c_consumed = [e \in Executions |-> 0]

NextConsole ==
    \/ \E e \in Executions : console_time(e)
    \/ \E e \in Executions : console_time_end(e)
    \/ \E e \in Executions : console_leave(e)

ConsoleSpec == ConsoleInit /\ [][NextConsole]_vars

\* One call of completion_with_context; every request is answered or fails
\* within its timeout.
RagInit ==
    /\ InitFlow /\ active_evaluation = TRUE
    /\ TreatIdle /\ HelperIdle /\ AsimovIdle /\ SysIdle /\ ConsoleIdle /\ IngestIdle
    /\ r_stage = "called"
    /\ r_poll_attempts \in (0 - 1)..MaxPollAttempts
    /\ r_attempt = 0
    /\ r_done = FALSE
    /\ r_requests = <<>>
    /\ r_result = [ok |-> FALSE, done |-> FALSE]

NextRag ==
    \/ rag_initiate
    \/ rag_poll
    \/ rag_fetch_result

RagSpec == RagInit /\ [][NextRag]_vars /\ WF_vars(NextRag)

\* Runs of one ingestion tool over one input and one output directory
IngestInit ==
    /\ InitFlow /\ active_evaluation = TRUE
    /\ TreatIdle /\ HelperIdle /\ AsimovIdle /\ SysIdle /\ ConsoleIdle /\ RagIdle
    /\ i_tool \in {"ingest_folder", "ingest_clean_folder"}
    /\ i_upload \in BOOLEAN
    /\ \E files \in SUBSET (1..Len(InputPool)) :
         i_input = SelectSeq(InputPool, LAMBDA f : \E k \in files : InputPool[k] = f)
    /\ i_queue = <<>>
    /\ i_out \in OutputDirs
    /\ i_uploaded = <<>>
    /\ i_runs = 0

NextIngest ==
    \/ ingest_run
    \/ ingest_file

IngestSpec == IngestInit /\ [][NextIngest]_vars

\* ------------------------------------------------------------------------
\* Specification of the flow
\* ------------------------------------------------------------------------

\* The listeners of the labels "approved", "max_retries", "no_reports" and
\* "rejected": the engine runs the one at the head of the queue.
OutcomeListeners ==
    {"finalize_approved", "finalize_forced", "handle_no_reports", "retry_synthesis"}

on_outcome_label ==
    /\ phase = "running"
    /\ pending # <<>>
    /\ Head(pending) \in OutcomeListeners
    /\ CASE Head(pending) = "finalize_approved" -> finalize_approved
         [] Head(pending) = "finalize_forced"   -> finalize_forced
         [] Head(pending) = "handle_no_reports" -> handle_no_reports
         [] Head(pending) = "retry_synthesis"   -> retry_synthesis

Next ==
    \/ \E tp \in Topics, sel \in Selections : kickoff(tp, sel)
    \/ initialize_research
    \/ run_all_crews_submit
    \/ \E c \in KnownCrews : crew_thread_finish(c)
    \/ \E c \in KnownCrews : collect_future(c)
    \/ run_all_crews_return
    \/ synthesize_report
    \/ route_after_synthesis
    \/ export_directly
    \/ evaluate_report
    \/ flow_control
    \/ on_outcome_label

Spec == Init /\ [][Next]_vars


\* The engine runs every method it has triggered, the pool runs every task it
\* was given, and the external calls return or raise.
FairSpec == Spec /\ WF_vars(Next)

\* ------------------------------------------------------------------------
\* Properties of the flow
\* ------------------------------------------------------------------------
Exported(report) == \E i \in DOMAIN exported : exported[i].report = report

\* C1: whatever the evaluator answers, synthesize_report runs at most
\* MAX_RETRY_COUNT times after its first run.
C1_RetriesStopAtBound == synth_calls <= 1 + MAX_RETRY_COUNT

C1_Witness ==
    /\ synth_calls = 1 + MAX_RETRY_COUNT
    /\ "finalize_forced" \in executed
    /\ FlowEnded

\* C2: once the flow has ended, every rejection of a synthesized draft within
\* the retry bound that carried a feedback string has been answered by a run
\* of the synthesis crew whose inputs carried that string.
C2_RejectionFeedsSynthesis ==
    (FlowEnded /\ crew_runs >= 1) => \A fb \in owed_feedback : fb = ""

\* C3: after flow_control has routed the evaluation of a synthesized draft,
\* finalize_approved is the next method if and only if the score of that
\* evaluation is at least MIN_APPROVAL_SCORE.
C3_ApprovedIffThreshold ==
    (/\ phase = "running"
     /\ eval_calls > 0
     /\ crew_runs >= 1
     /\ pending # <<>>
     /\ Head(pending) \in {"finalize_approved", "finalize_forced", "synthesize_report"})
    => (Head(pending) = "finalize_approved" <=> last_score >= MIN_APPROVAL_SCORE)

\* C4 (as claimed): when the flow has ended, a synthesized draft that the
\* evaluator approved has been handed to export_report.
C4_ApprovedDraftExported ==
    (FlowEnded /\ crew_runs >= 1 /\ approved_draft # NoDraft)
    => Exported(approved_draft)

\* C4 (amended): a non-empty draft that the evaluator approves is eventually
\* handed to export_report by finalize_approved.
C4_NonEmptyApprovedDraftExported ==
    (approved_draft \notin {NoDraft, ""})
    ~> ("finalize_approved" \in executed /\ Exported(approved_draft))

C4_Witness ==
    /\ approved_draft = "draft1"
    /\ last_score >= MIN_APPROVAL_SCORE
    /\ "finalize_approved" \in executed
    /\ Exported("draft1")

\* C5 (as claimed): when the flow has ended with the retry bound exceeded, the
\* most recently synthesized draft has been handed to export_report.
C5_ForcedDraftExported ==
    (FlowEnded /\ crew_runs >= 1 /\ retry_count > MAX_RETRY_COUNT)
    => (exported # <<>> /\ exported[Len(exported)].report = final_report)

\* C5 (amended): when the retry bound is exceeded and the most recently
\* synthesized draft is not empty, finalize_forced eventually hands that draft
\* to export_report.
C5_NonEmptyForcedDraftExported ==
    (retry_count > MAX_RETRY_COUNT /\ crew_runs >= 1 /\ final_report # "")
    ~> (/\ "finalize_forced" \in executed
        /\ exported # <<>>
        /\ exported[Len(exported)].report = final_report)

C5_Witness ==
    /\ retry_count > MAX_RETRY_COUNT
    /\ forced_draft = "draft1"
    /\ exported # <<>>
    /\ exported[Len(exported)].report = "draft1"

\* C6: synthesize_report is triggered, and runs, only when every selected
\* known crew has finished and been collected, and state.results then holds
\* one entry for each of them and no other.
C6_AllCrewsCollectedBeforeSynthesis ==
    (Ready("synthesize_report") \/ synth_calls > 0)
    => /\ \A c \in selected_crews \cap KnownCrews :
             c \in DOMAIN pool /\ pool[c] = "collected"
       /\ DOMAIN results = selected_crews \cap KnownCrews

C6_Witness ==
    /\ crew_runs > 0
    /\ Cardinality(selected_crews \cap KnownCrews) >= 2
    /\ DOMAIN results = selected_crews \cap KnownCrews


\* ------------------------------------------------------------------------
\* Properties of the brand treatment
\* ------------------------------------------------------------------------
\* The document went through the brand post-processing and was written.
Treated == t_stage = "written" /\ t_parsed.is_dict

EqualCI(a, b) == Lower(a) = Lower(b)
InCI(name, names) == \E i \in 1..Len(names) : EqualCI(names[i], name)

QuoteInCleaned(quote) == Contains(Lower(t_cleaned), Lower(quote))
QuoteInSomeChunk(quote) ==
    \E i \in 1..Len(t_items) : Contains(Lower(t_items[i].content), Lower(quote))
NameInCleaned(name) == FindFirstOccurrence(t_cleaned, name)[1] >= 0
MappedBrand(brand) == AliasOf(t_env.aliases, Strip(NormalizeBrandToken(brand)))
Listed(name) ==
    \/ InCI(name, t_semantics.brand_mentions)
    \/ InCI(name, t_semantics.brand_mentions_uncertain)

C8_ListedBrandHasLiteralEvidence ==
    Treated =>
      \A name \in SeqRange(t_semantics.brand_mentions)
                    \cup SeqRange(t_semantics.brand_mentions_uncertain) :
        \E i \in 1..Len(t_semantics.brand_evidence) :
          /\ t_semantics.brand_evidence[i].brand = name
          /\ t_semantics.brand_evidence[i].text # <<>>
          /\ QuoteInCleaned(t_semantics.brand_evidence[i].text)

C8_Witness ==
    /\ Treated
    /\ t_semantics.brand_mentions # <<>>
    /\ t_semantics.brand_mentions_uncertain # <<>>
    /\ \E i \in 1..Len(t_be_raw) : ~QuoteInCleaned(t_be_raw[i].text)

\* The name is in the answer's brand_mentions_uncertain only: it is not in
\* brand_mentions, and no brand_evidence item with a text is about it, as
\* written or through an alias.
OnlyUncertainWithoutEvidence(name) ==
    /\ InCI(name, t_parsed.brand_mentions_uncertain)
    /\ \A i \in 1..Len(t_parsed.brand_mentions) :
         /\ ~EqualCI(t_parsed.brand_mentions[i], name)
         /\ ~EqualCI(MappedBrand(t_parsed.brand_mentions[i]), name)
    /\ \A i \in 1..Len(t_parsed.brand_evidence) :
         \/ Strip(t_parsed.brand_evidence[i].text) = <<>>
         \/ /\ ~EqualCI(Strip(NormalizeBrandToken(t_parsed.brand_evidence[i].brand)), name)
            /\ ~EqualCI(MappedBrand(t_parsed.brand_evidence[i].brand), name)

HighAndVerbatim(item) ==
    /\ NormalizeConfidence(item.confidence) = "high"
    /\ Strip(item.text) # <<>>
    /\ Contains(t_cleaned, Strip(item.text))

\* C10 (as claimed): the brand of every such item is in brand_mentions.
C10_VerbatimHighConfirmed ==
    Treated =>
      \A i \in 1..Len(t_parsed.brand_evidence) :
        HighAndVerbatim(t_parsed.brand_evidence[i])
        => Strip(NormalizeBrandToken(t_parsed.brand_evidence[i].brand))
               \in SeqRange(t_semantics.brand_mentions)

\* C10 (amended): when the brand of such an item looks like a brand token and,
\* with a whitelist configured, its alias-mapped name is on the whitelist, the
\* alias-mapped name is in brand_mentions up to letter case.
C10_VerbatimHighTokenConfirmed ==
    Treated =>
      \A i \in 1..Len(t_parsed.brand_evidence) :
        (/\ HighAndVerbatim(t_parsed.brand_evidence[i])
         /\ LooksLikeBrandToken(t_parsed.brand_evidence[i].brand)
         /\ \/ t_env.whitelist = {}
            \/ MappedBrand(t_parsed.brand_evidence[i].brand) \in t_env.whitelist)
        => InCI(MappedBrand(t_parsed.brand_evidence[i].brand), t_semantics.brand_mentions)

C10_Witness ==
    /\ Treated
    /\ t_env.whitelist # {}
    /\ \E i \in 1..Len(t_parsed.brand_evidence) :
         /\ HighAndVerbatim(t_parsed.brand_evidence[i])
         /\ LooksLikeBrandToken(t_parsed.brand_evidence[i].brand)
         /\ MappedBrand(t_parsed.brand_evidence[i].brand) \in t_env.whitelist
         /\ MappedBrand(t_parsed.brand_evidence[i].brand)
                \in SeqRange(t_semantics.brand_mentions)

\* ------------------------------------------------------------------------
\* Properties of the text helpers
\* ------------------------------------------------------------------------
\* the name an entry of the list stands for: the entry without the whitespace
\* around it, letter case set aside
NameOf(entry) == Lower(Strip(entry))

\* the positions of d_names that hold the first occurrence of a non-blank name
FirstOccurrences ==
    {i \in 1..Len(d_names) :
        /\ NameOf(d_names[i]) # <<>>
        /\ \A j \in 1..(i - 1) : NameOf(d_names[j]) # NameOf(d_names[i])}

\* C11: the result of _dedupe_keep_order holds, in input order, exactly the
\* first occurrence of each non-blank name, and no two entries of the result
\* are equal ignoring case.
C11_DedupeFirstOccurrences ==
    d_stage = "returned" =>
      LET nth(k) == CHOOSE i \in FirstOccurrences :
                        Cardinality({j \in FirstOccurrences : j <= i}) = k
      IN  /\ Len(d_out) = Cardinality(FirstOccurrences)
          /\ \A k \in 1..Len(d_out) : d_out[k] = d_names[nth(k)]
          /\ \A a, b \in 1..Len(d_out) : a # b => ~EqualCI(d_out[a], d_out[b])

\* a list with a blank entry and a name repeated in another letter case came
\* back as the first spelling of that name, after an earlier other name
C11_Witness ==
    /\ d_stage = "returned"
    /\ d_names = <<BrandCd, <<" ">>, BrandAb>> \/ d_names = <<BrandAb, <<" ">>, <<"a", "b">>>>
    /\ \/ d_out = <<BrandCd, BrandAb>>
       \/ d_out = <<BrandAb>>
    /\ \E i, j \in 1..Len(d_names) :
         i < j /\ d_names[i] # d_names[j] /\ EqualCI(d_names[i], d_names[j])

\* C13: the chunks of a text do not overlap: every chunk has offsets with
\* 0 <= start < end <= len(text), and a chunk ends at or before the start of
\* the next one, so the starts increase.
C13_ChunksDoNotOverlap ==
    /\ \A i \in 1..Len(k_spans) :
         /\ 0 <= k_spans[i].start
         /\ k_spans[i].start < k_spans[i].end
         /\ k_spans[i].end <= Len(k_text)
    /\ \A i \in 1..(Len(k_spans) - 1) :
         /\ k_spans[i].end <= k_spans[i + 1].start
         /\ k_spans[i].start < k_spans[i + 1].start

\* _chunk_text_spans cut a text at a line break and skipped the line breaks
\* before the next chunk
C13_Witness ==
    /\ k_stage = "returned"
    /\ k_fn = "_chunk_text_spans"
    /\ Len(k_spans) >= 3
    /\ k_spans[1].end < k_spans[1].start + k_max_chars
    /\ k_spans[1].end < k_spans[2].start

\* ------------------------------------------------------------------------
\* Properties of the treatment of a file (continued)
\* ------------------------------------------------------------------------
\* run_treatment_folder is done with the file: it wrote the treated JSON or
\* was left by an exception
TreatmentOver == t_stage \in {"written", "aborted"}

\* C12: for a valid ingestor JSON one treated file is written, also when the
\* chunk retrieval fails, the RAG call fails or its answer cannot be parsed,
\* or the text is empty.
C12_TreatedFileAlwaysWritten == TreatmentOver => t_written = 1

\* ------------------------------------------------------------------------
\* Properties of the AsimovClient
\* ------------------------------------------------------------------------
\* the snippet is one of the requested dataset and key_prefix
MatchesRequest(it, dataset, key_prefix) ==
    /\ dataset # "" => it.dataset = dataset
    /\ key_prefix # <<>> => Slice(it.key, 0, Len(key_prefix)) = key_prefix

\* C14: find_snippets returns every matching snippet that lies within the
\* first max_pages pages of the listing, unless it stopped at max_items, also
\* when the endpoint lists the snippets of all datasets.
C14_FindReturnsEveryMatch ==
    (a_stage = "returned" /\ a_call.method = "find_snippets" /\ a_result.ok) =>
      LET max_items_i == ClampInt(a_call.max_items, 1, 10000)
          page_size_i == ClampInt(a_call.page_size, 1, MAX_SNIPPETS_LIMIT)
          max_pages_i == ClampInt(a_call.max_pages, 1, 10000)
          within      == Slice(a_backend.listing, 0, max_pages_i * page_size_i)
      IN  Len(a_result.items) < max_items_i =>
            \A i \in 1..Len(within) :
              MatchesRequest(within[i], a_call.dataset, a_call.key_prefix)
              => within[i] \in SeqRange(a_result.items)

\* C15: every request for a listing of snippets carries a limit between 1
\* and MAX_SNIPPETS_LIMIT, whatever limit or page_size the caller passed.
C15_ListingLimitClamped ==
    \A i \in 1..Len(a_sent) :
      a_sent[i].method = "GET snippets"
      => 1 <= a_sent[i].limit /\ a_sent[i].limit <= MAX_SNIPPETS_LIMIT

\* find_snippets was called with a page_size above the maximum and sent two
\* requests with the maximum
C15_Witness ==
    /\ a_stage = "returned"
    /\ a_call.method = "find_snippets"
    /\ a_call.page_size = PyInt(MAX_SNIPPETS_LIMIT + 1)
    /\ Len(a_sent) = 2
    /\ \A i \in 1..Len(a_sent) :
         a_sent[i].method = "GET snippets" /\ a_sent[i].limit = MAX_SNIPPETS_LIMIT

\* C16: limpar_dataset(dataset_name) sends delete requests only for snippets
\* of the dataset named dataset_name.
C16_DeletesOnlyNamedDataset ==
    \A i \in 1..Len(a_sent) :
      a_sent[i].method = "DELETE snippet"
      => \E it \in SnippetPool :
           it.uuid = a_sent[i].uuid /\ it.dataset = a_call.dataset_name

\* ------------------------------------------------------------------------
\* Properties of the DeskResearchSystem
\* ------------------------------------------------------------------------
\* C17: a fresh DeskResearchSystem lists "integrated" and "academic" among
\* its modes, every listed mode has a parameter collector and an executor,
\* and no selection of a listed mode ends as an unsupported mode.
C17_EveryModeDispatchable ==
    /\ {"integrated", "academic"} \subseteq SeqRange(ModosDisponiveis(s_module))
    /\ \A modo \in SeqRange(ModosDisponiveis(s_module)) :
         modo \in ParameterCollectors(s_module) /\ modo \in Executors(s_module)
    /\ s_modo # "" => s_modo \in SeqRange(ModosDisponiveis(s_module))
    /\ s_params # "unsupported"
    /\ s_stage # "failed"
    /\ s_stage = "done" => s_dispatched = s_modo

\* the last mode of the list of main.py was chosen by its number and its
\* executor was called
C17_Witness ==
    /\ s_module = "main"
    /\ s_stage = "done"
    /\ s_escolha.digit /\ s_escolha.n = Len(ModosDisponiveis(s_module))
    /\ s_dispatched = "consumer_hours"

\* ------------------------------------------------------------------------
\* Properties of the flow (continued)
\* ------------------------------------------------------------------------
\* C18: when the flow has ended with no crew data (no known crew was selected,
\* so state.results is empty), handle_no_reports has run and neither the
\* evaluator nor export_report was called.
C18_NoReportsEndsInHandler ==
    (FlowEnded /\ DOMAIN results = {})
    => /\ "handle_no_reports" \in executed
       /\ eval_calls = 0
       /\ exported = <<>>

\* the methods that end a run by handing the report to _export_final
ExportEnds == {"finalize_approved", "finalize_forced", "export_directly"}

\* C19: every run of the flow terminates: a started flow reaches its end
\* through an export method, or fails with an exception, and the evaluator
\* and the synthesis step run at most 1 + MAX_RETRY_COUNT times each.
C19_FlowTerminates ==
    /\ [](eval_calls <= 1 + MAX_RETRY_COUNT /\ synth_calls <= 1 + MAX_RETRY_COUNT)
    /\ (phase = "running")
         ~> (phase = "failed" \/ (FlowEnded /\ executed \cap ExportEnds # {}))

\* a run ended after the evaluator rejected the draft as often as it can
C19_Witness ==
    /\ FlowEnded
    /\ eval_calls = 1 + MAX_RETRY_COUNT
    /\ retry_count = 1 + MAX_RETRY_COUNT
    /\ executed \cap ExportEnds = {"finalize_forced"}

\* the futures that are done and not yet collected
DoneFutures == {"returned_output", "returned_error_text", "raised"}

\* C20: the failure of one crew is isolated: when the future of a crew that
\* raised is collected its entry in state.results is an error text, the entry
\* of a crew that returned its output is that output, no other entry changes,
\* and after a crew has raised the synthesis crew is still run.
C20_CrewFailureIsolated ==
    /\ [][\A c \in KnownCrews :
            (/\ c \in DOMAIN pool /\ pool[c] \in DoneFutures
             /\ c \in DOMAIN pool' /\ pool'[c] = "collected")
            => /\ c \in DOMAIN results'
               /\ results'[c].of = c
               /\ pool[c] = "raised" => results'[c].kind = "Erro:"
               /\ pool[c] = "returned_output" => results'[c].kind = "output"
               /\ \A other \in DOMAIN results \ {c} :
                      other \in DOMAIN results' /\ results'[other] = results[other]]_vars
    /\ (phase = "running" /\ \E c \in DOMAIN pool : pool[c] = "raised")
         ~> (crew_runs >= 1)

\* consumer_hours raised, another crew returned its output, and the synthesis
\* crew ran on both entries
C20_Witness ==
    /\ crew_runs >= 1
    /\ "consumer_hours" \in DOMAIN results
    /\ results["consumer_hours"] = [of |-> "consumer_hours", kind |-> "Erro:"]
    /\ \E c \in DOMAIN results :
         c # "consumer_hours" /\ results[c] = [of |-> c, kind |-> "output"]

\* ------------------------------------------------------------------------
\* Properties of Console, of the completion retrieval and of the ingestion
\* ------------------------------------------------------------------------
\* C21: under any interleaving of the executions, Console.time_end for a
\* label the execution started never raises and never consumes the timer
\* that another execution started.
C21_TimersDoNotInterfere ==
    \A e \in DOMAIN c_pc :
      /\ c_pc[e] # "raised"
      /\ c_consumed[e] \in {0, e}

\* the status requests sent so far
StatusRequests == SelectSeq(r_requests, LAMBDA q : q.request = "GET status")

\* poll_attempts, or 0 when it is negative
PollBudget == IF r_poll_attempts > 0 THEN r_poll_attempts ELSE 0

\* C22: one call of completion_with_context sends at most poll_attempts
\* status requests and at most poll_attempts + 2 requests in all, and it
\* returns (or raises) also when no status request reports the completion
\* as finished.
C22_PollingIsBounded ==
    /\ [](Len(StatusRequests) <= PollBudget /\ Len(r_requests) <= PollBudget + 2)
    /\ (r_stage = "called") ~> (r_stage \in {"returned", "raised"})

\* the call returned after poll_attempts status requests, none of which
\* reported the completion as finished
C22_Witness ==
    /\ r_stage = "returned"
    /\ r_poll_attempts = MaxPollAttempts
    /\ Len(StatusRequests) = r_poll_attempts
    /\ ~r_done
    /\ Len(r_requests) = r_poll_attempts + 2

\* C23: completion_with_context returns ok = True only when a status request
\* reported the completion as finished before the result was fetched.
C23_OkOnlyWhenDone ==
    (r_stage = "returned" /\ r_result.ok)
    => \E k \in 1..Len(StatusRequests) :
         StatusRequests[k].answer \in {"200 status 0", "200 status 2"}

\* a JSON file of the output directory carries this file_name
NameInOutput(name) == \E json_file \in i_out : json_file.file_name = name

\* C24: a pass of the loop over a document whose file_name is in a JSON of
\* the output directory writes no output file and uploads no chunk, and the
\* output directory never holds two JSON files for one file_name.
C24_ProcessedFileIsSkipped ==
    /\ [][(i_queue # <<>> /\ i_queue' = Tail(i_queue)
            /\ NameInOutput(Head(i_queue).name))
           => (i_out' = i_out /\ i_uploaded' = i_uploaded)]_vars
    /\ [](\A f, g \in i_out : f.file_name = g.file_name => f = g)

\* a second run over the directories is over: the files written and the
\* chunks uploaded are those of the first run, one file per file_name
C24_Witness ==
    /\ i_runs = MaxRuns
    /\ i_queue = <<>>
    /\ Len(i_input) = Len(InputPool)
    /\ i_out = {[file |-> 1, file_name |-> "a.txt"], [file |-> 3, file_name |-> "b.txt"]}
    /\ Len(i_uploaded) = 3

====
